---------------------------- MODULE Spec2Model ----------------------------
(***************************************************************************)
(* Typing-session state machine, scoring engine and leaderboard of         *)
(* wormtype.cpp.                                                           *)
(*                                                                         *)
(* Strings are sequences of one-character strings; C++ positions are       *)
(* 0-based, so target[i] of the source is At(target, i) here.  Doubles are  *)
(* modelled by exact non-negative rationals extended with +inf and NaN,    *)
(* with the IEEE-754 rules for division by zero, inf * 0 and comparisons.  *)
(***************************************************************************)
EXTENDS Integers, Sequences, FiniteSets, TLC

\* ------------------------------------------------------------------------
\* Bounds of the exploration
\* ------------------------------------------------------------------------
\* longest target text generated
MaxTargetLen == 4
\* the wall clock (seconds) takes the values 0..MaxTime
MaxTime == 1
\* number of sessions that may run to completion over the whole behaviour
MaxInserts == 1

\* std::string::npos (any value larger than every string length)
NPOS == 2147483647

\* ------------------------------------------------------------------------
\* Word pools (main)
\* ------------------------------------------------------------------------
words ==
    << <<"t","h","e">>, <<"q","u","i","c","k">>, <<"b","r","o","w","n">>, <<"f","o","x">>,
       <<"j","u","m","p","s">>, <<"o","v","e","r">>, <<"l","a","z","y">>, <<"d","o","g">>,
       <<"h","e","l","l","o">>, <<"w","o","r","l","d">>, <<"t","y","p","i","n","g">>,
       <<"t","e","s","t">>, <<"p","r","o","g","r","a","m">>, <<"s","i","m","p","l","e">>,
       <<"f","a","s","t">>, <<"c","o","m","p","u","t","e","r">>,
       <<"k","e","y","b","o","a","r","d">>, <<"s","c","r","e","e","n">>, <<"m","o","u","s","e">>,
       <<"s","o","f","t","w","a","r","e">>, <<"h","a","r","d","w","a","r","e">>,
       <<"i","n","t","e","r","n","e","t">>, <<"w","e","b","s","i","t","e">>,
       <<"e","m","a","i","l">>, <<"p","a","s","s","w","o","r","d">>,
       <<"u","s","e","r","n","a","m","e">>, <<"l","o","g","i","n">>,
       <<"d","o","w","n","l","o","a","d">>, <<"u","p","l","o","a","d">>, <<"f","i","l","e">>,
       <<"f","o","l","d","e","r">>, <<"d","o","c","u","m","e","n","t">>,
       <<"w","i","n","d","o","w">>, <<"b","u","t","t","o","n">>, <<"c","l","i","c","k">>,
       <<"d","o","u","b","l","e">>, <<"r","i","g","h","t">>, <<"l","e","f","t">>,
       <<"c","e","n","t","e","r">>, <<"t","o","p">>, <<"b","o","t","t","o","m">>,
       <<"m","i","d","d","l","e">>, <<"s","i","d","e">>, <<"f","r","o","n","t">>,
       <<"b","a","c","k">>, <<"f","o","r","w","a","r","d">>, <<"b","a","c","k","w","a","r","d">>,
       <<"u","p">>, <<"d","o","w","n">>, <<"n","o","r","t","h">>, <<"s","o","u","t","h">>,
       <<"e","a","s","t">>, <<"w","e","s","t">>, <<"m","o","r","n","i","n","g">>,
       <<"a","f","t","e","r","n","o","o","n">>, <<"e","v","e","n","i","n","g">>,
       <<"n","i","g","h","t">>, <<"t","o","d","a","y">>, <<"t","o","m","o","r","r","o","w">>,
       <<"y","e","s","t","e","r","d","a","y">>, <<"w","e","e","k">>, <<"m","o","n","t","h">>,
       <<"y","e","a","r">>, <<"t","i","m","e">>, <<"c","l","o","c","k">>, <<"w","a","t","c","h">>,
       <<"m","i","n","u","t","e">>, <<"s","e","c","o","n","d">>, <<"h","o","u","r">>,
       <<"s","c","h","e","d","u","l","e">>, <<"a","p","p","o","i","n","t","m","e","n","t">>,
       <<"m","e","e","t","i","n","g">>, <<"c","o","n","f","e","r","e","n","c","e">>,
       <<"p","r","e","s","e","n","t","a","t","i","o","n">>, <<"p","r","o","j","e","c","t">>,
       <<"t","a","s","k">>, <<"w","o","r","k">>, <<"j","o","b">>, <<"c","a","r","e","e","r">>,
       <<"b","u","s","i","n","e","s","s">>, <<"c","o","m","p","a","n","y">>,
       <<"o","f","f","i","c","e">>, <<"d","e","s","k">>, <<"c","h","a","i","r">>,
       <<"t","a","b","l","e">>, <<"p","h","o","n","e">>, <<"m","o","b","i","l","e">>,
       <<"t","a","b","l","e","t">>, <<"l","a","p","t","o","p">>, <<"d","e","s","k","t","o","p">>,
       <<"s","e","r","v","e","r">>, <<"n","e","t","w","o","r","k">>,
       <<"w","i","r","e","l","e","s","s">>, <<"b","l","u","e","t","o","o","t","h">>,
       <<"c","a","b","l","e">>, <<"c","o","n","n","e","c","t","i","o","n">>,
       <<"s","i","g","n","a","l">>, <<"d","a","t","a">>,
       <<"i","n","f","o","r","m","a","t","i","o","n">>, <<"k","n","o","w","l","e","d","g","e">>,
       <<"l","e","a","r","n","i","n","g">>, <<"e","d","u","c","a","t","i","o","n">>,
       <<"s","c","h","o","o","l">>, <<"u","n","i","v","e","r","s","i","t","y">>,
       <<"s","t","u","d","e","n","t">>, <<"t","e","a","c","h","e","r">>, <<"b","o","o","k">>,
       <<"p","a","g","e">>, <<"c","h","a","p","t","e","r">>,
       <<"p","a","r","a","g","r","a","p","h">>, <<"s","e","n","t","e","n","c","e">>,
       <<"w","o","r","d">>, <<"l","e","t","t","e","r">>, <<"n","u","m","b","e","r">>,
       <<"c","o","u","n","t">>, <<"c","a","l","c","u","l","a","t","e">>,
       <<"m","a","t","h","e","m","a","t","i","c","s">>, <<"s","c","i","e","n","c","e">>,
       <<"t","e","c","h","n","o","l","o","g","y">>, <<"i","n","n","o","v","a","t","i","o","n">>,
       <<"d","e","v","e","l","o","p","m","e","n","t">>, <<"p","r","o","g","r","e","s","s">>,
       <<"i","m","p","r","o","v","e","m","e","n","t">>, <<"s","o","l","u","t","i","o","n">>,
       <<"p","r","o","b","l","e","m">>, <<"c","h","a","l","l","e","n","g","e">>,
       <<"o","p","p","o","r","t","u","n","i","t","y">> >>

punctuationWords ==
    << <<"h","e","l","l","o",",">>, <<"w","o","r","l","d","!">>, <<"i","t","'","s">>,
       <<"d","o","n","'","t">>, <<"c","a","n","'","t">>, <<"w","o","n","'","t">>,
       <<"w","e","'","r","e">>, <<"t","h","e","y","'","r","e">>, <<"y","o","u","'","l","l">>,
       <<"I","'","l","l">>, <<"s","h","e","'","l","l">>, <<"h","e","'","l","l">>,
       <<"w","e","'","l","l">>, <<"t","h","e","y","'","l","l">>, <<"i","s","n","'","t">>,
       <<"a","r","e","n","'","t">>, <<"w","a","s","n","'","t">>, <<"w","e","r","e","n","'","t">>,
       <<"h","a","s","n","'","t">>, <<"h","a","v","e","n","'","t">>,
       <<"d","o","e","s","n","'","t">>, <<"d","i","d","n","'","t">>,
       <<"s","h","o","u","l","d","n","'","t">>, <<"w","o","u","l","d","n","'","t">>,
       <<"c","o","u","l","d","n","'","t">>, <<"m","u","s","t","n","'","t">>,
       <<"n","e","e","d","n","'","t">>, <<"s","h","a","n","'","t">>, <<"h","e","l","l","o",".">>,
       <<"g","o","o","d","b","y","e","!">>, <<"r","e","a","l","l","y","?">>,
       <<"a","m","a","z","i","n","g","!">>, <<"y","e","s",",">>, <<"n","o",",">>,
       <<"w","a","i","t",".",".",".">>, <<"s","t","o","p","!">>, <<"g","o","!">>,
       <<"h","e","l","p","!">>, <<"w","o","w","!">>, <<"o","h","!">> >>

numberWords ==
    << <<"1","2","3">>, <<"4","5","6">>, <<"7","8","9">>, <<"1","0","1">>, <<"2","0","2">>,
       <<"3","0","3">>, <<"4","0","4">>, <<"5","0","5">>, <<"2","0","2","4">>, <<"2","0","2","5">>,
       <<"1","9","9","5">>, <<"2","0","0","0">>, <<"4","2">>, <<"9","9">>, <<"1","0","0">>,
       <<"1","0","0","0">>, <<"t","e","s","t","1">>, <<"t","e","s","t","2">>,
       <<"f","i","l","e","1">>, <<"f","i","l","e","2">>, <<"u","s","e","r","1">>,
       <<"u","s","e","r","2">>, <<"a","d","m","i","n","1","2","3">>,
       <<"p","a","s","s","1","2","3">>, <<"v","1",".","0">>, <<"v","2",".","0">>,
       <<"v","3",".","1">>, <<"v","4",".","2">>, <<"r","o","o","m","1","0","1">>,
       <<"r","o","o","m","2","0","2">>, <<"a","p","t","3","b">>, <<"u","n","i","t","4","a">>,
       <<"l","e","v","e","l","1">>, <<"l","e","v","e","l","2">>, <<"s","t","e","p","1">>,
       <<"s","t","e","p","2">>, <<"p","a","g","e","1">>, <<"p","a","g","e","2">>,
       <<"i","t","e","m","1">>, <<"i","t","e","m","2">> >>

pureNumbers ==
    << <<"0">>, <<"1">>, <<"2">>, <<"3">>, <<"4">>, <<"5">>, <<"6">>, <<"7">>, <<"8">>, <<"9">>,
       <<"1","0">>, <<"1","1">>, <<"1","2">>, <<"1","3">>, <<"1","4">>, <<"1","5">>, <<"1","6">>,
       <<"1","7">>, <<"1","8">>, <<"1","9">>, <<"2","0">>, <<"2","5">>, <<"3","0">>, <<"4","2">>,
       <<"5","0">>, <<"7","5">>, <<"9","9">>, <<"1","0","0">>, <<"1","2","3">>, <<"4","5","6">>,
       <<"7","8","9">>, <<"1","0","0","0">>, <<"2","0","2","4">>, <<"2","0","2","5">>,
       <<"3","0","0","0">>, <<"5","0","0","0">> >>

\* tokens the model's rand() draws are restricted to
SampleTokens ==
    { <<"f","o","x">>, <<"o","h","!">>, <<"4","2">>, <<"7">> }

Range(s) == { s[i] : i \in 1..Len(s) }

\* PoolFor that never takes the pure numbers
PoolForMixed(punct, nums) ==
    words \o (IF punct THEN punctuationWords ELSE << >>)
          \o (IF nums THEN numberWords ELSE << >>)

\* the pool the generator draws from for a flag combination
PoolFor(punct, nums) ==
    IF nums /\ ~punct
    THEN pureNumbers
    ELSE words \o (IF punct THEN punctuationWords ELSE << >>)
               \o (IF nums THEN numberWords ELSE << >>)

\* Generate that puts the space before the first token as well
RECURSIVE GenerateSpaceFirst(_, _)
GenerateSpaceFirst(pool, count) ==
    IF count = 0 THEN { << >> }
    ELSE { prefix \o <<" ">> \o pool[r] :
              prefix \in GenerateSpaceFirst(pool, count - 1),
              r \in { i \in 1..Len(pool) : pool[i] \in SampleTokens } }

\* every target the generation loop can build: for i in 0..wordCount-1,
\* a space when i > 0, then pool[rand() % pool.size()]
RECURSIVE Generate(_, _)
Generate(pool, count) ==
    IF count = 0 THEN { << >> }
    ELSE { (IF count > 1 THEN prefix \o <<" ">> ELSE prefix) \o pool[r] :
              prefix \in Generate(pool, count - 1),
              r \in { i \in 1..Len(pool) : pool[i] \in SampleTokens } }

\* the generated targets explored, and the word counts that have one
Targets(punct, nums, count) ==
    { t \in Generate(PoolFor(punct, nums), count) : Len(t) <= MaxTargetLen }

WordCounts == 1..((MaxTargetLen + 1) \div 2)

\* ------------------------------------------------------------------------
\* Strings
\* ------------------------------------------------------------------------
\* s[i] of the source (0-based)
At(s, i) == s[i + 1]

\* s.substr(0, n)
Substr0(s, n) == SubSeq(s, 1, n)

\* s.find(c, from): 0-based position of the first c at or after from
RECURSIVE Find(_, _, _)
Find(s, c, from) ==
    IF from >= Len(s) THEN NPOS
    ELSE IF At(s, from) = c THEN from
    ELSE Find(s, c, from + 1)

\* while (space_pos < target.length() && target[space_pos] == ' ') space_pos++
RECURSIVE SkipSpaces(_, _)
SkipSpaces(s, pos) ==
    IF pos < Len(s) /\ At(s, pos) = " " THEN SkipSpaces(s, pos + 1) ELSE pos

\* NextWordPos with the loop over consecutive spaces left out
NextWordPosAtSpace(tgt, from) ==
    LET space_pos == Find(tgt, " ", from)
    IN  IF space_pos # NPOS THEN space_pos ELSE Len(tgt)

\* position of the next word's first character, seen from position from
NextWordPos(tgt, from) ==
    LET space_pos == Find(tgt, " ", from)
    IN  IF space_pos # NPOS THEN SkipSpaces(tgt, space_pos) ELSE Len(tgt)

\* FillSkipped with the target's own character put in place of the marker
RECURSIVE FillSkippedCopy(_, _, _)
FillSkippedCopy(ty, tgt, next_word_pos) ==
    IF Len(ty) < next_word_pos /\ Len(ty) < Len(tgt)
    THEN FillSkippedCopy(Append(ty, At(tgt, Len(ty))), tgt, next_word_pos)
    ELSE ty

\* the filler loop of the word jump
RECURSIVE FillSkipped(_, _, _)
FillSkipped(ty, tgt, next_word_pos) ==
    IF Len(ty) < next_word_pos /\ Len(ty) < Len(tgt)
    THEN FillSkipped(Append(ty, IF At(tgt, Len(ty)) = " " THEN " " ELSE "_"),
                     tgt, next_word_pos)
    ELSE ty

\* number of positions where typed and target agree
RECURSIVE CountCorrectFrom(_, _, _)
CountCorrectFrom(ty, tgt, i) ==
    IF i < Len(ty) /\ i < Len(tgt)
    THEN (IF At(ty, i) = At(tgt, i) THEN 1 ELSE 0) + CountCorrectFrom(ty, tgt, i + 1)
    ELSE 0

\* CountCorrect that takes every typed character for a correct one
CountCorrectAll(ty, tgt) == Len(ty)

CountCorrect(ty, tgt) == CountCorrectFrom(ty, tgt, 0)

\* ------------------------------------------------------------------------
\* Doubles: non-negative rationals n/d in lowest terms, +inf, NaN
\* ------------------------------------------------------------------------
RECURSIVE GCD(_, _)
GCD(a, b) == IF b = 0 THEN a ELSE GCD(b, a % b)

Fin(n, d) == LET g == GCD(n, d) IN [k |-> "fin", n |-> n \div g, d |-> d \div g]
Inf == [k |-> "inf", n |-> 0, d |-> 1]
NaN == [k |-> "nan", n |-> 0, d |-> 1]
Dbl(i) == Fin(i, 1)

FDiv(a, b) ==
    IF a.k = "nan" \/ b.k = "nan" THEN NaN
    ELSE IF a.k = "inf" THEN (IF b.k = "inf" THEN NaN ELSE Inf)
    ELSE IF b.k = "inf" THEN Dbl(0)
    ELSE IF b.n = 0 THEN (IF a.n = 0 THEN NaN ELSE Inf)
    ELSE Fin(a.n * b.d, a.d * b.n)

FMul(a, b) ==
    IF a.k = "nan" \/ b.k = "nan" THEN NaN
    ELSE IF a.k = "inf" THEN (IF b.k = "fin" /\ b.n = 0 THEN NaN ELSE Inf)
    ELSE IF b.k = "inf" THEN (IF a.n = 0 THEN NaN ELSE Inf)
    ELSE Fin(a.n * b.n, a.d * b.d)

\* a < b, a > b, a == b, a != b on doubles (every comparison with NaN but != is false)
\* n1/d1 < n2/d2 for naturals, by comparing continued fractions (no products)
RECURSIVE RatLess(_, _, _, _)
RatLess(n1, d1, n2, d2) ==
    LET q1 == n1 \div d1
        q2 == n2 \div d2
        r1 == n1 % d1
        r2 == n2 % d2
    IN  IF q1 # q2 THEN q1 < q2
        ELSE IF r2 = 0 THEN FALSE
        ELSE IF r1 = 0 THEN TRUE
        ELSE RatLess(d2, r2, d1, r1)

FLt(a, b) ==
    /\ a.k # "nan" /\ b.k # "nan"
    /\ \/ a.k = "fin" /\ b.k = "inf"
       \/ a.k = "fin" /\ b.k = "fin" /\ RatLess(a.n, a.d, b.n, b.d)
FGt(a, b) == FLt(b, a)
FEq(a, b) == a.k # "nan" /\ b.k # "nan" /\ a = b
FNe(a, b) == ~FEq(a, b)
FGe(a, b) == FGt(a, b) \/ FEq(a, b)

\* ------------------------------------------------------------------------
\* Text of numbers: operator<< (default precision 6), std::stod, std::stoi
\* ------------------------------------------------------------------------
Digits == << "0", "1", "2", "3", "4", "5", "6", "7", "8", "9" >>

IsDigit(c) == \E i \in 1..10 : Digits[i] = c
DigitVal(c) == (CHOOSE i \in 1..10 : Digits[i] = c) - 1

RECURSIVE Pow10(_)
Pow10(e) == IF e = 0 THEN 1 ELSE 10 * Pow10(e - 1)

\* decimal digits of a natural number
RECURSIVE IntText(_)
IntText(i) ==
    IF i < 10 THEN << Digits[i + 1] >>
    ELSE Append(IntText(i \div 10), Digits[(i % 10) + 1])

\* i written with exactly w digits (leading zeros)
RECURSIVE PadText(_, _)
PadText(i, w) ==
    IF w = 0 THEN << >> ELSE Append(PadText(i \div 10, w - 1), Digits[(i % 10) + 1])

RECURSIVE StripZeros(_)
StripZeros(s) ==
    IF Len(s) > 0 /\ s[Len(s)] = "0" THEN StripZeros(SubSeq(s, 1, Len(s) - 1)) ELSE s

\* decimal exponent X of a positive rational: 10^X <= n/d < 10^(X+1), X in -4..5
\* (written with quotients so that no product leaves the 32-bit integers)
RECURSIVE Exp10(_, _, _)
Exp10(n, d, x) ==
    IF x = -4 THEN x
    ELSE IF x >= 0
    THEN (IF n \div d >= Pow10(x) THEN x ELSE Exp10(n, d, x - 1))
    ELSE (IF n >= (d + Pow10(0 - x) - 1) \div Pow10(0 - x) THEN x ELSE Exp10(n, d, x - 1))

\* long division: <<floor(q*10^s + r*10^s/d), remainder>> starting from quotient q
\* and remainder r < d
RECURSIVE LongDiv(_, _, _, _)
LongDiv(q, r, d, s) ==
    IF s = 0 THEN << q, r >>
    ELSE LongDiv(q * 10 + (r * 10) \div d, (r * 10) % d, d, s - 1)

\* round(n/d * 10^s) to the nearest integer, halves up, s in 0..9
RoundScaled(n, d, s) ==
    LET qr == LongDiv(n \div d, n % d, d, s)
    IN  IF 2 * qr[2] >= d THEN qr[1] + 1 ELSE qr[1]

\* fixed notation of the 6-digit mantissa m with decimal exponent x
FixedText(m, x) ==
    IF x >= 0
    THEN LET ip == m \div Pow10(5 - x)
             fp == StripZeros(PadText(m % Pow10(5 - x), 5 - x))
         IN  IntText(ip) \o (IF fp = << >> THEN << >> ELSE <<".">> \o fp)
    ELSE <<"0", ".">> \o PadText(0, (0 - x) - 1) \o StripZeros(PadText(m, 6))

\* file << double: "%g" with 6 significant digits (decimal exponents -4..5)
FormatDouble(v) ==
    IF v.k = "inf" THEN <<"i","n","f">>
    ELSE IF v.k = "nan" THEN <<"-","n","a","n">>
    ELSE IF v.n = 0 THEN <<"0">>
    ELSE LET x0 == Exp10(v.n, v.d, 5)
             m0 == RoundScaled(v.n, v.d, 5 - x0)
             x  == IF m0 >= 1000000 THEN x0 + 1 ELSE x0
             m  == IF m0 >= 1000000 THEN 100000 ELSE m0
         IN  FixedText(m, x)

\* length of the longest prefix of s, from 1-based index i, made of digits
RECURSIVE DigitRun(_, _)
DigitRun(s, i) == IF i <= Len(s) /\ IsDigit(s[i]) THEN 1 + DigitRun(s, i + 1) ELSE 0

RECURSIVE DigitsVal(_, _, _)
DigitsVal(s, i, n) ==
    IF n = 0 THEN 0 ELSE DigitsVal(s, i, n - 1) * 10 + DigitVal(s[i + n - 1])

StartsWith(s, i, w) == i + Len(w) - 1 <= Len(s) /\ SubSeq(s, i, i + Len(w) - 1) = w

Throw == [k |-> "throw", n |-> 0, d |-> 1]

\* std::stod on texts of non-negative numbers: optional '-', then inf, nan or
\* digits with an optional fraction; the longest valid prefix is converted and
\* a text with no such prefix throws std::invalid_argument
StoD(s) ==
    LET i  == IF Len(s) > 0 /\ s[1] = "-" THEN 2 ELSE 1
        ni == DigitRun(s, i)
        hasDot == i + ni <= Len(s) /\ s[i + ni] = "."
        nf == IF hasDot THEN DigitRun(s, i + ni + 1) ELSE 0
    IN  IF StartsWith(s, i, <<"i","n","f">>) THEN Inf
        ELSE IF StartsWith(s, i, <<"n","a","n">>) THEN NaN
        ELSE IF ni + nf = 0 THEN Throw
        ELSE Fin(DigitsVal(s, i, ni) * Pow10(nf) + DigitsVal(s, i + ni + 1, nf), Pow10(nf))

\* std::stoi on texts of natural numbers: the leading digits, or a throw (-1)
StoI(s) ==
    LET ni == DigitRun(s, 1)
    IN  IF ni = 0 THEN -1 ELSE DigitsVal(s, 1, ni)

\* ------------------------------------------------------------------------
\* PlayerScore, toUpperCase, the leaderboard file
\* ------------------------------------------------------------------------
LowerCase == << "a","b","c","d","e","f","g","h","i","j","k","l","m",
                "n","o","p","q","r","s","t","u","v","w","x","y","z" >>
UpperCase == << "A","B","C","D","E","F","G","H","I","J","K","L","M",
                "N","O","P","Q","R","S","T","U","V","W","X","Y","Z" >>

\* toUpperCase that returns its argument
toUpperCaseNone(str) == str

toUpperCase(str) ==
    [ i \in 1..Len(str) |->
        IF \E j \in 1..26 : LowerCase[j] = str[i]
        THEN UpperCase[CHOOSE j \in 1..26 : LowerCase[j] = str[i]]
        ELSE str[i] ]

\* strftime("%m/%d/%Y %H:%M") of the clock: the clock starts at midnight and
\* the day part, the same for every record, is left out
DateText(t) == PadText((t \div 3600) % 24, 2) \o <<":">> \o PadText((t \div 60) % 60, 2)

Unknown == <<"U","n","k","n","o","w","n">>

PlayerScore(n, w, a, t, d, wc, punct, nums) ==
    [ name |-> n, wpm |-> w, accuracy |-> a, time |-> t, date |-> d,
      wordCount |-> wc, hasPunctuation |-> punct, hasNumbers |-> nums ]

\* one line of leaderboard.txt as saveLeaderboard writes it
FormatLine(r) ==
    r.name \o <<"|">> \o FormatDouble(r.wpm) \o <<"|">> \o FormatDouble(r.accuracy)
           \o <<"|">> \o FormatDouble(r.time) \o <<"|">> \o r.date
           \o <<"|">> \o IntText(r.wordCount)
           \o <<"|">> \o (IF r.hasPunctuation THEN <<"1">> ELSE <<"0">>)
           \o <<"|">> \o (IF r.hasNumbers THEN <<"1">> ELSE <<"0">>)

NoFile == [ exists |-> FALSE, lines |-> << >> ]

saveLeaderboard(lb) ==
    [ exists |-> TRUE, lines |-> [ i \in 1..Len(lb) |-> FormatLine(lb[i]) ] ]

\* line.find('|', pos + 1) in size_t arithmetic: npos + 1 wraps to 0
FindNext(line, pos) == Find(line, "|", IF pos = NPOS THEN 0 ELSE pos + 1)

\* line.substr(pos, count); a count of NPOS stands for every value that
\* reaches the end of the line
Substr(line, pos, count) ==
    IF count = NPOS \/ pos + count >= Len(line)
    THEN SubSeq(line, pos + 1, Len(line))
    ELSE SubSeq(line, pos + 1, pos + count)

\* b - a - 1 in size_t arithmetic (mod 2^64)
Gap(a, b) ==
    IF a = NPOS THEN b
    ELSE IF b = NPOS \/ b <= a THEN NPOS
    ELSE b - a - 1

\* line.substr(a + 1, b - a - 1)
Field(line, a, b) == Substr(line, IF a = NPOS THEN 0 ELSE a + 1, Gap(a, b))

\* line.substr(a + 1)
Rest(line, a) == Substr(line, IF a = NPOS THEN 0 ELSE a + 1, NPOS)

\* the body of the getline loop for one line:
\*   [k |-> "skip"]  the line adds no record,
\*   [k |-> "rec"]   the line adds record rec,
\*   [k |-> "throw"] std::stod throws outside every try block
ParseLine(line) ==
    LET pos1 == Find(line, "|", 0)
        pos2 == FindNext(line, pos1)
        pos3 == FindNext(line, pos2)
        pos4 == FindNext(line, pos3)
        pos5 == FindNext(line, pos4)
        pos6 == FindNext(line, pos5)
        pos7 == FindNext(line, pos6)
        name == toUpperCase(Substr(line, 0, pos1))
        wpm  == StoD(Field(line, pos1, pos2))
        accuracy == StoD(Field(line, pos2, pos3))
        time == IF pos4 # NPOS THEN StoD(Field(line, pos3, pos4)) ELSE StoD(Rest(line, pos3))
        none == [ name |-> << >>, wpm |-> NaN, accuracy |-> NaN, time |-> NaN, date |-> << >>,
                  wordCount |-> 0, hasPunctuation |-> FALSE, hasNumbers |-> FALSE ]
        Rec(date, wc, punct, nums) ==
            [ k |-> "rec", rec |-> PlayerScore(name, wpm, accuracy, time, date, wc, punct, nums) ]
    IN  IF ~(pos1 # NPOS /\ pos2 # NPOS /\ pos3 # NPOS) THEN [ k |-> "skip", rec |-> none ]
        ELSE IF wpm.k = "throw" \/ accuracy.k = "throw" \/ time.k = "throw"
        THEN [ k |-> "throw", rec |-> none ]
        ELSE IF pos4 = NPOS THEN Rec(Unknown, 15, FALSE, FALSE)
        ELSE IF pos7 # NPOS
        THEN LET wc == StoI(Field(line, pos5, pos6))
                 pu == StoI(Field(line, pos6, pos7))
                 nu == StoI(Rest(line, pos7))
             IN  IF wc = -1 \/ pu = -1 \/ nu = -1
                 THEN Rec(Unknown, 15, FALSE, FALSE)
                 ELSE Rec(Field(line, pos4, pos5), wc, pu = 1, nu = 1)
        ELSE IF pos5 # NPOS
        THEN LET wc == StoI(Rest(line, pos5))
             IN  IF wc = -1 THEN Rec(Unknown, 15, FALSE, FALSE)
                 ELSE Rec(Field(line, pos4, pos5), wc, FALSE, FALSE)
        ELSE LET date == Rest(line, pos4)
             IN  Rec(IF date = << >> THEN Unknown ELSE date, 15, FALSE, FALSE)

\* LoadLines that leaves the loop after a record dated "Unknown"
RECURSIVE LoadLinesBreak(_, _, _)
LoadLinesBreak(lines, i, lb) ==
    IF i > Len(lines) THEN [ ok |-> TRUE, lb |-> lb ]
    ELSE LET p == ParseLine(lines[i])
         IN  IF p.k = "throw" THEN [ ok |-> FALSE, lb |-> << >> ]
             ELSE IF p.k = "rec" /\ p.rec.date = Unknown
             THEN [ ok |-> TRUE, lb |-> Append(lb, p.rec) ]
             ELSE LoadLinesBreak(lines, i + 1, IF p.k = "rec" THEN Append(lb, p.rec) ELSE lb)

\* loadLeaderboard: [ok |-> FALSE] when a std::stod exception escapes
RECURSIVE LoadLines(_, _, _)
LoadLines(lines, i, lb) ==
    IF i > Len(lines) THEN [ ok |-> TRUE, lb |-> lb ]
    ELSE LET p == ParseLine(lines[i])
         IN  IF p.k = "throw" THEN [ ok |-> FALSE, lb |-> << >> ]
             ELSE LoadLines(lines, i + 1, IF p.k = "rec" THEN Append(lb, p.rec) ELSE lb)

\* loadLeaderboard that fails when the file cannot be opened
loadLeaderboardNeedsFile(f) ==
    IF f.exists THEN LoadLines(f.lines, 1, << >>) ELSE [ ok |-> FALSE, lb |-> << >> ]

loadLeaderboard(f) ==
    IF f.exists THEN LoadLines(f.lines, 1, << >>) ELSE [ ok |-> TRUE, lb |-> << >> ]

\* ------------------------------------------------------------------------
\* compareScores, std::sort, addToLeaderboard
\* ------------------------------------------------------------------------
compareScores(a, b) ==
    IF FNe(a.wpm, b.wpm) THEN FGt(a.wpm, b.wpm) ELSE FGt(a.accuracy, b.accuracy)

Incomparable(a, b) == ~compareScores(a, b) /\ ~compareScores(b, a)

\* the requirement std::sort puts on its comparison, over the elements of s
StrictWeakOrder(s) ==
    \A i, j, k \in 1..Len(s) :
        /\ ~compareScores(s[i], s[i])
        /\ compareScores(s[i], s[j]) /\ compareScores(s[j], s[k]) => compareScores(s[i], s[k])
        /\ Incomparable(s[i], s[j]) /\ Incomparable(s[j], s[k]) => Incomparable(s[i], s[k])

Rearrangements(s) == { [ i \in 1..Len(s) |-> s[p[i]] ] : p \in Permutations(1..Len(s)) }

SortedBy(s) == \A i, j \in 1..Len(s) : i < j => ~compareScores(s[j], s[i])

\* what std::sort(begin, end, compareScores) may leave in the vector: a sorted
\* rearrangement (elements that compare equivalent in any order), and any
\* rearrangement when the comparison is no strict weak order on the elements
\* (undefined behaviour, as with a NaN wpm)
StdSort(s) ==
    IF StrictWeakOrder(s) THEN { r \in Rearrangements(s) : SortedBy(r) }
    ELSE Rearrangements(s)

MaxLeaderboard == 10

addToLeaderboard(lb, newScore) ==
    { IF Len(r) > MaxLeaderboard THEN SubSeq(r, 1, MaxLeaderboard) ELSE r :
        r \in StdSort(Append(lb, newScore)) }

\* ------------------------------------------------------------------------
\* Metrics (main: live statistics and final stats)
\* ------------------------------------------------------------------------
\* difftime(time(nullptr), start_time)
Elapsed(t, st) == Dbl(t - st)

NoStats == [ shown |-> FALSE, correct |-> 0, elapsed |-> Dbl(0), raw_wpm |-> Dbl(0),
             accuracy |-> Dbl(0), wpm |-> Dbl(0) ]

\* LiveStats without the test of elapsed
LiveStatsNoGuard(ty, tgt, st, stt, t) ==
    IF st /\ Len(ty) > 0
    THEN LET elapsed  == Elapsed(t, stt)
             correct  == CountCorrect(ty, tgt)
             raw_wpm  == FDiv(FDiv(Dbl(correct), Dbl(5)), FDiv(elapsed, Dbl(60)))
             accuracy == FDiv(Dbl(correct * 100), Dbl(Len(ty)))
             accuracy_multiplier ==
                 IF FLt(accuracy, Dbl(50)) THEN FDiv(accuracy, Dbl(50)) ELSE Dbl(1)
         IN  [ shown |-> TRUE, correct |-> correct, elapsed |-> elapsed, raw_wpm |-> raw_wpm,
               accuracy |-> accuracy, wpm |-> FMul(raw_wpm, accuracy_multiplier) ]
    ELSE NoStats

\* the live statistics block of one redraw
LiveStats(ty, tgt, st, stt, t) ==
    IF st /\ Len(ty) > 0 /\ FGt(Elapsed(t, stt), Dbl(0))
    THEN LET elapsed  == Elapsed(t, stt)
             correct  == CountCorrect(ty, tgt)
             raw_wpm  == FDiv(FDiv(Dbl(correct), Dbl(5)), FDiv(elapsed, Dbl(60)))
             accuracy == FDiv(Dbl(correct * 100), Dbl(Len(ty)))
             accuracy_multiplier ==
                 IF FLt(accuracy, Dbl(50)) THEN FDiv(accuracy, Dbl(50)) ELSE Dbl(1)
         IN  [ shown |-> TRUE, correct |-> correct, elapsed |-> elapsed, raw_wpm |-> raw_wpm,
               accuracy |-> accuracy, wpm |-> FMul(raw_wpm, accuracy_multiplier) ]
    ELSE NoStats

\* the final stats of the completion block
FinalStats(ty, tgt, stt, t) ==
    LET elapsed == Elapsed(t, stt)
        correct == CountCorrect(ty, tgt)
        raw_final_wpm  == FDiv(FDiv(Dbl(correct), Dbl(5)), FDiv(elapsed, Dbl(60)))
        final_accuracy == FDiv(Dbl(correct * 100), Dbl(Len(ty)))
        final_accuracy_multiplier ==
            IF FLt(final_accuracy, Dbl(50)) THEN FDiv(final_accuracy, Dbl(50)) ELSE Dbl(1)
    IN  [ shown |-> TRUE, correct |-> correct, elapsed |-> elapsed, raw_wpm |-> raw_final_wpm,
          accuracy |-> final_accuracy, wpm |-> FMul(raw_final_wpm, final_accuracy_multiplier) ]

\* ------------------------------------------------------------------------
\* State
\* ------------------------------------------------------------------------
VARIABLES
    pc,                 \* where main is: "start", "menu", "typing", "prompt", "board",
                        \* "closet" (showWormCloset), "exited", "aborted",
                        \* "killed" (ended by a signal)
    now,                \* time(nullptr)
    file,               \* leaderboard.txt
    leaderboard,        \* std::vector<PlayerScore> leaderboard
    playerName,
    wordCount, includePunctuation, includeNumbers,
    target, typed, start_time, started,
    jumped_from_pos, has_jumped,
    lastEvent,          \* branch taken by the last iteration of the typing loop: "none",
                        \* "undo" (backspace over a jump), "backspace", "skip" (space in
                        \* a word), "space", "char", "enter", "other", "esc"
    beforeSkip,         \* typed at the start of the word jump, while the jump is active
    recorded,           \* ScoreRecords inserted for the current session
    inserts             \* ScoreRecords inserted since the first launch

session == << target, typed, start_time, started, jumped_from_pos, has_jumped >>
options == << wordCount, includePunctuation, includeNumbers >>
observed == << lastEvent, beforeSkip, recorded >>
vars == << pc, now, file, leaderboard, playerName, options, session, observed, inserts >>

\* names typed in the name-entry screen
NameInputs == { <<"a","l">> }

\* printable keys (33..126) pressed besides the one the target asks for: 'L',
\* which the instruction line announces as the leaderboard key
WrongKeys == { "L" }

\* the loop of getUniquePlayerNames from record i on
RECURSIVE UniqueFrom(_, _, _)
UniqueFrom(lb, i, uniqueNames) ==
    IF i > Len(lb) THEN uniqueNames
    ELSE LET name  == lb[i].name
             found == \E j \in 1..Len(uniqueNames) : uniqueNames[j] = name
         IN  UniqueFrom(lb, i + 1, IF found THEN uniqueNames ELSE Append(uniqueNames, name))

\* getUniquePlayerNames that keeps every name
getUniquePlayerNamesAll(lb) == [ i \in 1..Len(lb) |-> lb[i].name ]

getUniquePlayerNames(lb) == UniqueFrom(lb, 1, << >>)

\* names getPlayerName can return for the inputs typed in the name-entry
\* screen: a new name, upper-cased by getNewPlayerName, or a name of the
\* leaderboard picked in the selection menu, returned as it is ("", "CANCEL"
\* and "WORM_CLOSET" are not names for its callers)
getPlayerName(lb, inputs) ==
    { toUpperCase(n) : n \in inputs }
        \cup (Range(getUniquePlayerNames(lb))
                 \ { << >>, <<"C","A","N","C","E","L">>,
                     <<"W","O","R","M","_","C","L","O","S","E","T">> })

Init ==
    /\ pc = "start"
    /\ now = 0
    /\ file = NoFile
    /\ leaderboard = << >>
    /\ playerName = << >>
    /\ wordCount = 0 /\ includePunctuation = FALSE /\ includeNumbers = FALSE
    /\ target = << >> /\ typed = << >> /\ start_time = 0 /\ started = FALSE
    /\ jumped_from_pos = NPOS /\ has_jumped = FALSE
    /\ lastEvent = "none" /\ beforeSkip = << >>
    /\ recorded = 0
    /\ inserts = 0

\* ------------------------------------------------------------------------
\* Start of main: load the leaderboard, ask for the player name
\* ------------------------------------------------------------------------
Startup ==
    /\ pc = "start"
    /\ LET loaded == loadLeaderboard(file)
       IN  IF ~loaded.ok
           THEN pc' = "aborted" /\ UNCHANGED << leaderboard, playerName >>
           ELSE /\ leaderboard' = loaded.lb
                /\ \/ playerName' \in getPlayerName(loaded.lb, NameInputs) /\ pc' = "menu"
                   \/ pc' = "exited" /\ UNCHANGED playerName
    /\ UNCHANGED << now, file, options, session, observed, inserts >>

\* showWordCountMenu, showTextOptionsMenu, target generation
StartSession ==
    /\ pc = "menu"
    /\ inserts < MaxInserts
    /\ \E wc \in WordCounts, punct \in BOOLEAN, nums \in BOOLEAN :
         /\ wordCount' = wc /\ includePunctuation' = punct /\ includeNumbers' = nums
         /\ target' \in Targets(punct, nums, wc)
    /\ typed' = << >> /\ start_time' = 0 /\ started' = FALSE
    /\ jumped_from_pos' = NPOS /\ has_jumped' = FALSE
    /\ lastEvent' = "none" /\ beforeSkip' = << >>
    /\ recorded' = 0
    /\ pc' = "typing"
    /\ UNCHANGED << now, file, leaderboard, playerName, inserts >>

\* the body of the menu loop is left (break, return, or its end): wordCount,
\* the two flags, target, typed and the timer and jump variables are locals
\* of that body and stop existing
EndSession ==
    /\ wordCount' = 0 /\ includePunctuation' = FALSE /\ includeNumbers' = FALSE
    /\ target' = << >> /\ typed' = << >> /\ start_time' = 0 /\ started' = FALSE
    /\ jumped_from_pos' = NPOS /\ has_jumped' = FALSE
    /\ beforeSkip' = << >> /\ recorded' = 0

\* the word-count menu is left with Q
QuitMenu ==
    /\ pc = "menu"
    /\ pc' = "exited"
    /\ UNCHANGED << now, file, leaderboard, playerName, options, session, observed, inserts >>

\* the clock advances while the typing loop waits in getch()
Tick ==
    /\ pc = "typing"
    /\ now < MaxTime
    /\ now' = now + 1
    /\ UNCHANGED << pc, file, leaderboard, playerName, options, session, observed, inserts >>

\* ------------------------------------------------------------------------
\* The typing loop: one action per key, each the whole iteration
\* (handler, redraw with live statistics, completion block)
\* ------------------------------------------------------------------------
Session ==
    [ target |-> target, typed |-> typed, start_time |-> start_time, started |-> started,
      jumped_from_pos |-> jumped_from_pos, has_jumped |-> has_jumped ]

\* StartTimer without the test of started
StartTimerAlways(s, t) == [ s EXCEPT !.start_time = t, !.started = TRUE ]

\* if (!started) { start_time = time(nullptr); started = true; }
StartTimer(s, t) ==
    IF ~s.started THEN [ s EXCEPT !.start_time = t, !.started = TRUE ] ELSE s

\* OnBackspace without the jump branch
OnBackspacePopOnly(s) ==
    IF s.typed # << >>
    THEN [ s EXCEPT !.typed = SubSeq(s.typed, 1, Len(s.typed) - 1),
                    !.has_jumped = FALSE, !.jumped_from_pos = NPOS ]
    ELSE s

\* OnBackspace that stops the timer when it empties typed
OnBackspaceStopTimer(s) ==
    IF s.has_jumped /\ Len(s.typed) > s.jumped_from_pos
    THEN [ s EXCEPT !.typed = Substr0(s.typed, s.jumped_from_pos),
                    !.has_jumped = FALSE, !.jumped_from_pos = NPOS ]
    ELSE IF s.typed # << >>
    THEN [ s EXCEPT !.typed = SubSeq(s.typed, 1, Len(s.typed) - 1),
                    !.started = Len(s.typed) > 1,
                    !.has_jumped = FALSE, !.jumped_from_pos = NPOS ]
    ELSE s

\* ch == KEY_BACKSPACE || ch == 127 || ch == 8
OnBackspace(s) ==
    IF s.has_jumped /\ Len(s.typed) > s.jumped_from_pos
    THEN [ s EXCEPT !.typed = Substr0(s.typed, s.jumped_from_pos),
                    !.has_jumped = FALSE, !.jumped_from_pos = NPOS ]
    ELSE IF s.typed # << >>
    THEN [ s EXCEPT !.typed = SubSeq(s.typed, 1, Len(s.typed) - 1),
                    !.has_jumped = FALSE, !.jumped_from_pos = NPOS ]
    ELSE s

\* the space is pressed in the middle of a word
MidWord(s) == Len(s.typed) < Len(s.target) /\ At(s.target, Len(s.typed)) # " "

\* OnSpace with the pressed space appended after the filler of a jump as well
OnSpaceExtra(s, t) ==
    IF Len(s.typed) < Len(s.target)
    THEN LET s1 == StartTimer(s, t)
         IN  IF MidWord(s1)
             THEN [ s1 EXCEPT
                      !.jumped_from_pos = Len(s.typed),
                      !.typed = Append(FillSkipped(s.typed, s.target,
                                                   NextWordPos(s.target, Len(s.typed))), " "),
                      !.has_jumped = TRUE ]
             ELSE [ s1 EXCEPT !.typed = Append(s.typed, " "),
                              !.has_jumped = FALSE, !.jumped_from_pos = NPOS ]
    ELSE s

\* OnSpace that records a jump for a space pressed at a word boundary too
OnSpaceAlwaysJump(s, t) ==
    IF Len(s.typed) < Len(s.target)
    THEN LET s1 == StartTimer(s, t)
         IN  IF MidWord(s1)
             THEN [ s1 EXCEPT
                      !.jumped_from_pos = Len(s.typed),
                      !.typed = FillSkipped(s.typed, s.target,
                                            NextWordPos(s.target, Len(s.typed))),
                      !.has_jumped = TRUE ]
             ELSE [ s1 EXCEPT !.typed = Append(s.typed, " "),
                              !.has_jumped = TRUE, !.jumped_from_pos = Len(s.typed) ]
    ELSE s

\* ch == ' '
OnSpace(s, t) ==
    IF Len(s.typed) < Len(s.target)
    THEN LET s1 == StartTimer(s, t)
         IN  IF MidWord(s1)
             THEN [ s1 EXCEPT
                      !.jumped_from_pos = Len(s.typed),
                      !.typed = FillSkipped(s.typed, s.target,
                                            NextWordPos(s.target, Len(s.typed))),
                      !.has_jumped = TRUE ]
             ELSE [ s1 EXCEPT !.typed = Append(s.typed, " "),
                              !.has_jumped = FALSE, !.jumped_from_pos = NPOS ]
    ELSE s

\* OnPrintable that leaves the jump state as it is
OnPrintableKeepJump(s, t, ch) ==
    IF Len(s.typed) < Len(s.target)
    THEN [ StartTimer(s, t) EXCEPT !.typed = Append(s.typed, ch) ]
    ELSE s

\* OnPrintable that clears has_jumped and keeps jumped_from_pos
OnPrintableKeepAnchor(s, t, ch) ==
    IF Len(s.typed) < Len(s.target)
    THEN [ StartTimer(s, t) EXCEPT !.typed = Append(s.typed, ch), !.has_jumped = FALSE ]
    ELSE s

\* ch >= 33 && ch <= 126
OnPrintable(s, t, ch) ==
    IF Len(s.typed) < Len(s.target)
    THEN [ StartTimer(s, t) EXCEPT !.typed = Append(s.typed, ch),
                                   !.has_jumped = FALSE, !.jumped_from_pos = NPOS ]
    ELSE s

\* OnEnter without the regeneration of the target
OnEnterNoText(s, text) ==
    [ s EXCEPT !.typed = << >>, !.started = FALSE, !.target = << >>,
               !.has_jumped = FALSE, !.jumped_from_pos = NPOS ]

\* OnEnter that leaves the timer running
OnEnterKeepTimer(s, text) ==
    [ s EXCEPT !.typed = << >>, !.target = text,
               !.has_jumped = FALSE, !.jumped_from_pos = NPOS ]

\* ch == 10 || ch == 13: restart with the freshly generated text
OnEnter(s, text) ==
    [ s EXCEPT !.typed = << >>, !.started = FALSE, !.target = text,
               !.has_jumped = FALSE, !.jumped_from_pos = NPOS ]

\* OnOther that forgets the jump
OnOtherClearsJump(s) == [ s EXCEPT !.has_jumped = FALSE, !.jumped_from_pos = NPOS ]

\* any other key: the branches for 'l', 'L' and 'W' come after the printable
\* branch, which takes these three keys, so no other key has a handler
OnOther(s) == s

\* Completes one character early
CompletesEarly(s) == Len(s.typed) + 1 >= Len(s.target)

\* typed.length() == target.length() after the redraw
Completes(s) == Len(s.typed) = Len(s.target)

\* NewScore whose elapsed time is measured from time 0
NewScoreFromZero(s, t) ==
    LET f == FinalStats(s.typed, s.target, 0, t)
    IN  PlayerScore(playerName, f.wpm, f.accuracy, f.elapsed, DateText(t),
                    wordCount, includePunctuation, includeNumbers)

\* the record built by the completion block
NewScore(s, t) ==
    LET f == FinalStats(s.typed, s.target, s.start_time, t)
    IN  PlayerScore(playerName, f.wpm, f.accuracy, f.elapsed, DateText(t),
                    wordCount, includePunctuation, includeNumbers)

\* Iterate whose completion block inserts the record without saveLeaderboard
IterateNoSave(ev, s) ==
    /\ target' = s.target /\ typed' = s.typed
    /\ start_time' = s.start_time /\ started' = s.started
    /\ jumped_from_pos' = s.jumped_from_pos /\ has_jumped' = s.has_jumped
    /\ lastEvent' = ev
    /\ beforeSkip' = IF ev = "skip" THEN typed ELSE IF s.has_jumped THEN beforeSkip ELSE << >>
    /\ IF Completes(s)
       THEN /\ leaderboard' \in addToLeaderboard(leaderboard, NewScore(s, now))
            /\ file' = file
            /\ recorded' = recorded + 1
            /\ inserts' = inserts + 1
            /\ pc' = "prompt"
       ELSE UNCHANGED << leaderboard, file, recorded, inserts, pc >>
    /\ UNCHANGED << now, playerName, options >>

\* Iterate that skips the completion block after a word jump
IterateJumpNotFinal(ev, s) ==
    /\ target' = s.target /\ typed' = s.typed
    /\ start_time' = s.start_time /\ started' = s.started
    /\ jumped_from_pos' = s.jumped_from_pos /\ has_jumped' = s.has_jumped
    /\ lastEvent' = ev
    /\ beforeSkip' = IF ev = "skip" THEN typed ELSE IF s.has_jumped THEN beforeSkip ELSE << >>
    /\ IF Completes(s) /\ ev # "skip"
       THEN /\ leaderboard' \in addToLeaderboard(leaderboard, NewScore(s, now))
            /\ file' = saveLeaderboard(leaderboard')
            /\ recorded' = recorded + 1
            /\ inserts' = inserts + 1
            /\ pc' = "prompt"
       ELSE UNCHANGED << leaderboard, file, recorded, inserts, pc >>
    /\ UNCHANGED << now, playerName, options >>

\* the rest of an iteration once the handler has produced session state s
Iterate(ev, s) ==
    /\ target' = s.target /\ typed' = s.typed
    /\ start_time' = s.start_time /\ started' = s.started
    /\ jumped_from_pos' = s.jumped_from_pos /\ has_jumped' = s.has_jumped
    /\ lastEvent' = ev
    /\ beforeSkip' = IF ev = "skip" THEN typed ELSE IF s.has_jumped THEN beforeSkip ELSE << >>
    /\ IF Completes(s)
       THEN /\ leaderboard' \in addToLeaderboard(leaderboard, NewScore(s, now))
            /\ file' = saveLeaderboard(leaderboard')
            /\ recorded' = recorded + 1
            /\ inserts' = inserts + 1
            /\ pc' = "prompt"
       ELSE UNCHANGED << leaderboard, file, recorded, inserts, pc >>
    /\ UNCHANGED << now, playerName, options >>

\* the printable keys pressed: the one the target asks for next, and wrong ones
PrintableKeys == (WrongKeys \cup { At(target, Len(typed)) }) \ { " " }

KeyBackspace ==
    /\ pc = "typing"
    /\ Iterate(IF has_jumped /\ Len(typed) > jumped_from_pos THEN "undo" ELSE "backspace",
               OnBackspace(Session))

KeySpace ==
    /\ pc = "typing"
    /\ Iterate(IF MidWord(Session) THEN "skip" ELSE "space", OnSpace(Session, now))

KeyPrintable ==
    /\ pc = "typing"
    /\ \E ch \in PrintableKeys :
         Iterate("char", OnPrintable(Session, now, ch))

KeyEnter ==
    /\ pc = "typing"
    /\ \E text \in Targets(includePunctuation, includeNumbers, wordCount) :
         Iterate("enter", OnEnter(Session, text))

KeyOther ==
    /\ pc = "typing"
    /\ Iterate("other", OnOther(Session))

\* ESC ends the typing loop; main goes back to the word-count menu
KeyEsc ==
    /\ pc = "typing"
    /\ pc' = "menu"
    /\ lastEvent' = "esc"
    /\ EndSession
    /\ UNCHANGED << now, file, leaderboard, playerName, inserts >>

\* ------------------------------------------------------------------------
\* After completion: the prompt, then showLeaderboard
\* ------------------------------------------------------------------------
\* Enter at "Press Enter to view leaderboard | Q to quit"
PromptEnter ==
    /\ pc = "prompt"
    /\ pc' = "board"
    /\ UNCHANGED << now, file, leaderboard, playerName, options, session, observed, inserts >>

\* Q at the prompt: cleanup and return from main
PromptQuit ==
    /\ pc = "prompt"
    /\ pc' = "exited"
    /\ lastEvent' = "none"
    /\ EndSession
    /\ UNCHANGED << now, file, leaderboard, playerName, inserts >>

\* BoardClear that empties the leaderboard without saveLeaderboard
BoardClearNoSave ==
    /\ pc = "board"
    /\ leaderboard' = << >>
    /\ file' = file
    /\ pc' = "menu"
    /\ lastEvent' = "none"
    /\ EndSession
    /\ UNCHANGED << now, playerName, inserts >>

\* 'C' then 'Y' in showLeaderboard: clear and save
BoardClear ==
    /\ pc = "board"
    /\ leaderboard' = << >>
    /\ file' = saveLeaderboard(leaderboard')
    /\ pc' = "menu"
    /\ lastEvent' = "none"
    /\ EndSession
    /\ UNCHANGED << now, playerName, inserts >>

\* any key that leaves showLeaderboard without a change
BoardLeave ==
    /\ pc = "board"
    /\ pc' = "menu"
    /\ lastEvent' = "none"
    /\ EndSession
    /\ UNCHANGED << now, file, leaderboard, playerName, inserts >>

\* the program is started again; leaderboard.txt and the clock are kept
Relaunch ==
    /\ pc = "exited"
    /\ pc' = "start"
    /\ leaderboard' = << >> /\ playerName' = << >>
    /\ wordCount' = 0 /\ includePunctuation' = FALSE /\ includeNumbers' = FALSE
    /\ target' = << >> /\ typed' = << >> /\ start_time' = 0 /\ started' = FALSE
    /\ jumped_from_pos' = NPOS /\ has_jumped' = FALSE
    /\ lastEvent' = "none" /\ beforeSkip' = << >>
    /\ recorded' = 0
    /\ UNCHANGED << now, file, inserts >>

Next ==
    \/ Startup \/ StartSession \/ QuitMenu \/ Tick
    \/ KeyBackspace \/ KeySpace \/ KeyPrintable \/ KeyEnter \/ KeyOther \/ KeyEsc
    \/ PromptEnter \/ PromptQuit \/ BoardClear \/ BoardLeave \/ Relaunch

Spec == Init /\ [][Next]_vars

\* ------------------------------------------------------------------------
\* The leaderboard operations on their own: insert (the completion block of
\* a finished session), clear (showLeaderboard) and load (start of main)
\* ------------------------------------------------------------------------
\* records kept by the leaderboard in this exploration
MaxRecords == 3

\* what typed can be when a session on target tgt completes: every character
\* typed right, every word skipped with the space key, the first character
\* typed right and the rest skipped
RECURSIVE SkipAll(_, _)
SkipAll(ty, tgt) ==
    IF Len(ty) < Len(tgt)
    THEN SkipAll(FillSkipped(ty, tgt, NextWordPos(tgt, Len(ty))), tgt)
    ELSE ty

Finished(tgt) == { tgt, SkipAll(<< >>, tgt), SkipAll(<< tgt[1] >>, tgt) }

\* the sessions whose completion is explored: options chosen in the menus and
\* a target generated for them
LbSessions ==
    { o \in { [ wc |-> 1, punct |-> FALSE, nums |-> FALSE, tgt |-> <<"f","o","x">> ],
              [ wc |-> 2, punct |-> TRUE, nums |-> TRUE, tgt |-> <<"4","2"," ","f","o","x">> ] } :
        o.tgt \in Generate(PoolFor(o.punct, o.nums), o.wc) }

LbInit ==
    /\ pc = "board"
    /\ now = 0
    /\ file = NoFile
    /\ leaderboard = << >>
    /\ playerName = toUpperCase(CHOOSE n \in NameInputs : TRUE)
    /\ wordCount = 0 /\ includePunctuation = FALSE /\ includeNumbers = FALSE
    /\ target = << >> /\ typed = << >> /\ start_time = 0 /\ started = FALSE
    /\ jumped_from_pos = NPOS /\ has_jumped = FALSE
    /\ lastEvent = "none" /\ beforeSkip = << >>
    /\ recorded = 0
    /\ inserts = 0

\* a session with some options finishes after some whole seconds: the
\* completion block inserts its record and saves
LbInsert ==
    /\ Len(leaderboard) < MaxRecords
    /\ \E o \in LbSessions :
         \E ty \in Finished(o.tgt), elapsed \in 0..MaxTime :
           LET f == FinalStats(ty, o.tgt, 0, elapsed)
               newScore == PlayerScore(playerName, f.wpm, f.accuracy, f.elapsed,
                                       DateText(now), o.wc, o.punct, o.nums)
           IN  leaderboard' \in addToLeaderboard(leaderboard, newScore)
    /\ file' = saveLeaderboard(leaderboard')
    /\ UNCHANGED << pc, now, playerName, options, session, observed, inserts >>

\* leaderboard.clear(); saveLeaderboard(leaderboard)
LbClear ==
    /\ leaderboard' = << >>
    /\ file' = saveLeaderboard(leaderboard')
    /\ UNCHANGED << pc, now, playerName, options, session, observed, inserts >>

\* the program is started again: leaderboard = loadLeaderboard()
LbLoad ==
    /\ loadLeaderboard(file).ok
    /\ leaderboard' = loadLeaderboard(file).lb
    /\ UNCHANGED << pc, now, file, playerName, options, session, observed, inserts >>

LbNext == LbInsert \/ LbClear \/ LbLoad

SpecLB == LbInit /\ [][LbNext]_vars

\* ------------------------------------------------------------------------
\* The loader on hand-written files: leaderboard.txt holds lines of every
\* shape when the program starts; the program loads it, inserts, clears,
\* changes the player name and is started again
\* ------------------------------------------------------------------------
\* lines a hand-written leaderboard.txt is made of in this exploration
\* two separators: no record: AL|40|90
Line2 == <<"A","L","|","4","0","|","9","0">>
\* NAME|WPM|ACCURACY and a trailing time: AL|40|90|12
Line3 == <<"A","L","|","4","0","|","9","0","|","1","2">>
\* NAME|WPM|ACCURACY|TIME|DATE: AL|40|90|12|JAN
Line5 == <<"A","L","|","4","0","|","9","0","|","1","2","|","J","A","N">>
\* NAME|WPM|ACCURACY|TIME| with an empty date: AL|40|90|12|
Line5NoDate == <<"A","L","|","4","0","|","9","0","|","1","2","|">>
\* 5 fields, a name made of digits: 7|40|90|12|JAN
Line5Digits == <<"7","|","4","0","|","9","0","|","1","2","|","J","A","N">>
\* NAME|WPM|ACCURACY|TIME|DATE|WORD_COUNT: AL|40|90|12|JAN|25
Line6 == <<"A","L","|","4","0","|","9","0","|","1","2","|","J","A","N","|","2","5">>
\* 6 fields, a name made of digits: 1|40|90|12|JAN|25
Line6Digits == <<"1","|","4","0","|","9","0","|","1","2","|","J","A","N","|","2","5">>
\* 7 fields: AL|40|90|12|JAN|25|1
Line7 == <<"A","L","|","4","0","|","9","0","|","1","2","|","J","A","N","|","2","5","|","1">>
\* the newest shape: AL|50|80|12|JAN|25|1|0
Line8 == <<"A","L","|","5","0","|","8","0","|","1","2","|","J","A","N","|","2","5","|","1","|","0">>
\* newest shape, WORD_COUNT not a number: AL|40|90|12|JAN|xx|1|0
Line8BadCount == <<"A","L","|","4","0","|","9","0","|","1","2","|","J","A","N","|","x","x","|","1","|","0">>
\* newest shape, HAS_PUNCTUATION not a number: AL|40|90|12|JAN|25|x|0
Line8BadFlag == <<"A","L","|","4","0","|","9","0","|","1","2","|","J","A","N","|","2","5","|","x","|","0">>
\* newest shape, WPM not a number: AL|fast|90|12|JAN|25|1|0
LineBadWpm == <<"A","L","|","f","a","s","t","|","9","0","|","1","2","|","J","A","N","|","2","5","|","1","|","0">>

\* newest shape, a lower-case name: al|50|80|12|JAN|25|1|0
Line8Lower == <<"a","l","|","5","0","|","8","0","|","1","2","|","J","A","N","|","2","5","|","1","|","0">>

SampleLines ==
    { Line2, Line3, Line5, Line5NoDate, Line8Lower,
      Line5Digits, Line6, Line6Digits, Line7,
      Line8, Line8BadCount, Line8BadFlag, LineBadWpm }

\* lines of a hand-written file in this exploration
MaxFileLines == 2

RECURSIVE FilesOf(_)
FilesOf(n) ==
    IF n = 0 THEN { << >> }
    ELSE FilesOf(n - 1) \cup { Append(f, l) : f \in { g \in FilesOf(n - 1) : Len(g) = n - 1 },
                                              l \in SampleLines }

\* a file with one line more than the leaderboard keeps
LongFile == [ i \in 1..(MaxLeaderboard + 1) |-> Line8 ]

\* leaderboard.txt when the program starts: absent, or hand-written
SampleFiles ==
    { NoFile } \cup { [ exists |-> TRUE, lines |-> f ] : f \in FilesOf(MaxFileLines) \cup { LongFile } }

\* names typed in the name-entry screen after "change name": any printable
\* character is accepted, '|' included
RenameInputs == { <<"a","|","b">> }

FileInit ==
    /\ pc = "start"
    /\ now = 0
    /\ file \in SampleFiles
    /\ leaderboard = << >>
    /\ playerName = << >>
    /\ wordCount = 0 /\ includePunctuation = FALSE /\ includeNumbers = FALSE
    /\ target = << >> /\ typed = << >> /\ start_time = 0 /\ started = FALSE
    /\ jumped_from_pos = NPOS /\ has_jumped = FALSE
    /\ lastEvent = "none" /\ beforeSkip = << >>
    /\ recorded = 0
    /\ inserts = 0

\* a session is played from the menu and every character is typed right:
\* the completion block inserts its record and saves
FileInsert ==
    /\ pc = "menu"
    /\ inserts < MaxInserts
    /\ Len(leaderboard) < MaxRecords
    /\ \E o \in LbSessions, elapsed \in 0..MaxTime :
         LET f == FinalStats(o.tgt, o.tgt, 0, elapsed)
             newScore == PlayerScore(playerName, f.wpm, f.accuracy, f.elapsed,
                                     DateText(now), o.wc, o.punct, o.nums)
         IN  leaderboard' \in addToLeaderboard(leaderboard, newScore)
    /\ file' = saveLeaderboard(leaderboard')
    /\ inserts' = inserts + 1
    /\ UNCHANGED << pc, now, playerName, options, session, observed >>

\* the leaderboard is cleared in showLeaderboard
FileClear == pc = "menu" /\ leaderboard # << >> /\ LbClear

\* "change name" in showLeaderboard, then a new name is typed
FileRename ==
    /\ pc = "menu"
    /\ playerName' \in getPlayerName(leaderboard, RenameInputs)
    /\ playerName' # playerName
    /\ UNCHANGED << pc, now, file, leaderboard, options, session, observed, inserts >>

\* the program is left at the menu and started again: main loads the file
\* the last save wrote and asks for the name
FileRestart ==
    /\ pc = "menu"
    /\ LET loaded == loadLeaderboard(file)
       IN  IF ~loaded.ok
           THEN pc' = "aborted" /\ UNCHANGED << leaderboard, playerName >>
           ELSE /\ leaderboard' = loaded.lb
                /\ playerName' \in getPlayerName(loaded.lb, NameInputs)
                /\ pc' = "menu"
    /\ UNCHANGED << now, file, options, session, observed, inserts >>

FileNext == Startup \/ FileInsert \/ FileClear \/ FileRename \/ FileRestart

SpecFile == FileInit /\ [][FileNext]_vars

\* ------------------------------------------------------------------------
\* SIGINT and SIGTERM: signalHandler calls cleanup() and exit(signum)
\* ------------------------------------------------------------------------
\* leaderboard.txt when the process ends inside saveLeaderboard(lb): the
\* constructor of std::ofstream has truncated the file, and every std::endl
\* has flushed one more line; exit() does not come back to the loop
InterruptedSave(lb) ==
    { [ exists |-> TRUE, lines |-> SubSeq(saveLeaderboard(lb).lines, 1, written) ] :
        written \in 0..Len(lb) }

\* the signal arrives while the program waits for a key
SignalIdle ==
    /\ pc = "menu"
    /\ pc' = "killed"
    /\ UNCHANGED << now, file, leaderboard, playerName, options, session, observed, inserts >>

\* the signal arrives while the completion block saves the leaderboard it
\* has just inserted the new record into
SignalInSave ==
    /\ pc = "menu"
    /\ inserts < MaxInserts
    /\ Len(leaderboard) < MaxRecords
    /\ \E o \in LbSessions, elapsed \in 0..MaxTime :
         LET f == FinalStats(o.tgt, o.tgt, 0, elapsed)
             newScore == PlayerScore(playerName, f.wpm, f.accuracy, f.elapsed,
                                     DateText(now), o.wc, o.punct, o.nums)
         IN  leaderboard' \in addToLeaderboard(leaderboard, newScore)
    /\ file' \in InterruptedSave(leaderboard')
    /\ inserts' = inserts + 1
    /\ pc' = "killed"
    /\ UNCHANGED << now, playerName, options, session, observed >>

\* the program is started again after the signal
SignalRelaunch ==
    /\ pc = "killed"
    /\ LET loaded == loadLeaderboard(file)
       IN  IF ~loaded.ok
           THEN pc' = "aborted" /\ UNCHANGED << leaderboard, playerName >>
           ELSE /\ leaderboard' = loaded.lb
                /\ playerName' \in getPlayerName(loaded.lb, NameInputs)
                /\ pc' = "menu"
    /\ UNCHANGED << now, file, options, session, observed, inserts >>

SignalNext == Startup \/ FileInsert \/ SignalIdle \/ SignalInSave \/ SignalRelaunch

SpecSignal == FileInit /\ [][SignalNext]_vars

\* ------------------------------------------------------------------------
\* Names typed in the name-entry screen and what main does with them
\* ------------------------------------------------------------------------
\* key sequences confirmed with Enter in the name-entry screen: printable
\* characters other than 'q' and 'Q', at most 20 of them
TypedNames ==
    { <<"a","l">>, <<"B","o">>, <<"c","a","n","c","e","l">>,
      <<"w","o","r","m","_","c","l","o","s","e","t">> }

\* getNewPlayerName for the keys typed before Enter
getNewPlayerName(name) == toUpperCase(name)

\* main compares what getPlayerName returned with "CANCEL" and with
\* "WORM_CLOSET" before it takes it as the player name
NameOutcome(newPlayerName) ==
    IF newPlayerName = <<"C","A","N","C","E","L">>
    THEN pc' = "exited" /\ UNCHANGED playerName
    ELSE IF newPlayerName = <<"W","O","R","M","_","C","L","O","S","E","T">>
    THEN pc' = "closet" /\ UNCHANGED playerName
    ELSE pc' = "menu" /\ playerName' = newPlayerName

\* start of main; the player types a new name
NameStartup ==
    /\ pc = "start"
    /\ LET loaded == loadLeaderboard(file)
       IN  IF ~loaded.ok
           THEN pc' = "aborted" /\ UNCHANGED << leaderboard, playerName >>
           ELSE /\ leaderboard' = loaded.lb
                /\ \E n \in TypedNames : NameOutcome(getNewPlayerName(n))
    /\ UNCHANGED << now, file, options, session, observed, inserts >>

\* showWormCloset returns after a while and getPlayerName is called again
NameCloset ==
    /\ pc = "closet"
    /\ now' \in now..MaxTime
    /\ \E n \in TypedNames : NameOutcome(getNewPlayerName(n))
    /\ UNCHANGED << file, leaderboard, options, session, observed, inserts >>

\* "change name" in the leaderboard shown after a completed session
NameChange ==
    /\ pc = "menu"
    /\ inserts > 0
    /\ \E n \in TypedNames : NameOutcome(getNewPlayerName(n))
    /\ UNCHANGED << now, file, leaderboard, options, session, observed, inserts >>

NameNext == NameStartup \/ NameCloset \/ NameChange \/ FileInsert

SpecName == FileInit /\ [][NameNext]_vars

\* ------------------------------------------------------------------------
\* Properties
\* ------------------------------------------------------------------------
\* what a redraw computes as live statistics in the current state
Live == LiveStats(typed, target, started, start_time, now)

\* what the completion block computed (the clock stands still after it)
Final == FinalStats(typed, target, start_time, now)

Completed == pc \in { "prompt", "board" }

\* index of the first character of the first word that starts after position
\* from, Len(tgt) when no word starts there
WordStartAfter(tgt, from) ==
    LET starts == { j \in (from + 1)..(Len(tgt) - 1) :
                      At(tgt, j) # " " /\ At(tgt, j - 1) = " " }
    IN  IF starts = {} THEN Len(tgt)
        ELSE CHOOSE j \in starts : \A k \in starts : j <= k

AllPools == << words, punctuationWords, numberWords, pureNumbers >>

\* no token of any pool holds the filler character or a space
NoFillerInPools ==
    \A p \in 1..Len(AllPools) : \A w \in 1..Len(AllPools[p]) :
        \A c \in 1..Len(AllPools[p][w]) : AllPools[p][w][c] \notin { "_", " " }

\* C1: a space pressed inside a word leaves len(typed) at the first character
\* of the next word, or at len(target) when there is none; typed keeps what it
\* held before, and every non-space character the jump added is '_', which
\* differs from the target character at its index; no pool token holds a '_'.
C1_WordSkip ==
    /\ NoFillerInPools
    /\ lastEvent = "skip" =>
          /\ jumped_from_pos = Len(beforeSkip)
          /\ Substr0(typed, jumped_from_pos) = beforeSkip
          /\ Len(typed) = WordStartAfter(target, jumped_from_pos)
          /\ \A i \in jumped_from_pos..(Len(typed) - 1) :
                At(typed, i) # " " => At(typed, i) = "_" /\ At(typed, i) # At(target, i)

\* a jump from inside the first word to the start of a second word
C1_Witness ==
    /\ lastEvent = "skip" /\ pc = "typing"
    /\ jumped_from_pos > 0 /\ Len(typed) < Len(target)

\* C2: one backspace right after a word jump gives typed back exactly as it
\* was before the jump (length jump_anchor, same characters) and leaves no
\* jump active.
C2_BackspaceAfterSkip ==
    [][ (pc = "typing" /\ lastEvent = "skip" /\ lastEvent' \in { "undo", "backspace" }) =>
           /\ typed' = beforeSkip
           /\ Len(typed') = jumped_from_pos
           /\ ~has_jumped' /\ jumped_from_pos' = NPOS ]_vars

\* a backspace has undone a jump that started after the first character
C2_Witness == lastEvent = "undo" /\ typed # << >> /\ ~has_jumped

\* C3: in every reachable state len(typed) <= len(target).
C3_TypedWithinTarget == Len(typed) <= Len(target)

\* a jump from inside the last word has filled typed up to the end of target
C3_Witness == lastEvent = "skip" /\ Len(typed) = Len(target) /\ Len(target) > 1

\* C4: a session is Completed exactly when len(typed) == len(target), which
\* the event that reaches it detects; a Completed session never goes back to
\* typing, keeps its typed string for as long as it exists and has exactly
\* one ScoreRecord inserted.
C4_Completion ==
    /\ [](/\ pc = "typing" => Len(typed) < Len(target) /\ recorded = 0
          /\ Completed => Len(typed) = Len(target) /\ recorded = 1)
    /\ [][ /\ Completed => pc' # "typing" /\ leaderboard' \in { leaderboard, << >> }
           /\ (Completed /\ Completed') =>
                 typed' = typed /\ target' = target /\ recorded' = recorded
           /\ recorded' # recorded /\ pc = "typing" =>
                 Completed' /\ Len(leaderboard') = Len(leaderboard) + 1 ]_vars

\* a session completed and its record is the only one of the leaderboard
C4_Witness == pc = "prompt" /\ recorded = 1 /\ Len(leaderboard) = 1

\* C5: the typing loop changes the leaderboard and leaderboard.txt only in the
\* event that brings len(typed) to len(target); ESC and Restart leave both
\* unchanged.
C5_RecordOnlyOnCompletion ==
    [][ /\ (pc = "typing" /\ (leaderboard' # leaderboard \/ file' # file)) =>
              pc' = "prompt" /\ Len(typed') = Len(target') /\ Len(target') > 0
        /\ (pc = "typing" /\ lastEvent' \in { "esc", "enter" } /\ lastEvent' # lastEvent) =>
              leaderboard' = leaderboard /\ file' = file ]_vars

\* a session abandoned with ESC after a second in the typing loop
C5_Witness ==
    /\ lastEvent = "esc" /\ pc = "menu" /\ now > 0
    /\ inserts = 0 /\ leaderboard = << >> /\ file = NoFile

\* C6: started is false from session creation or restart until the first
\* printable or space key, which sets started and start_time; later keys keep
\* start_time; backspace and other keys never start the timer.
C6_TimerStart ==
    /\ [](lastEvent \in { "none", "enter" } => ~started)
    /\ [][ pc = "typing" =>
            /\ (lastEvent' \in { "char", "space", "skip" } /\ ~started) =>
                  started' /\ start_time' = now
            /\ (lastEvent' \in { "char", "space", "skip" } /\ started) =>
                  started' /\ start_time' = start_time
            /\ lastEvent' \in { "undo", "backspace", "other" } =>
                  started' = started /\ start_time' = start_time
            /\ lastEvent' = "esc" => ~started' ]_vars

\* the first key was accepted one second after the session was created
C6_Witness == pc = "typing" /\ started /\ start_time > 0 /\ lastEvent = "char"

\* number of spaces of tgt at positions from..to-1
RECURSIVE SpacesIn(_, _, _)
SpacesIn(tgt, from, to) ==
    IF from >= to THEN 0
    ELSE (IF At(tgt, from) = " " THEN 1 ELSE 0) + SpacesIn(tgt, from + 1, to)

\* C7 as claimed: after a jump no index of [jump_anchor, len(typed)) is
\* counted as correct.
C7_Original ==
    has_jumped =>
        \A i \in jumped_from_pos..(Len(typed) - 1) : At(typed, i) # At(target, i)

\* C7 as amended: after a jump, the indexes of [jump_anchor, len(typed)) that
\* are counted as correct are exactly those where target holds a space.
C7_SkippedLettersWrong ==
    has_jumped =>
        /\ \A i \in jumped_from_pos..(Len(typed) - 1) :
              At(typed, i) = At(target, i) <=> At(target, i) = " "
        /\ CountCorrect(typed, target) =
              CountCorrect(Substr0(typed, jumped_from_pos), target)
                 + SpacesIn(target, jumped_from_pos, Len(typed))

\* a jump over the rest of a word and the space after it
C7_Witness ==
    /\ has_jumped /\ Len(typed) >= jumped_from_pos + 2
    /\ At(target, Len(typed) - 1) = " "

\* C8: no record whose wpm comes from a division by a zero elapsed time is in
\* the leaderboard: every recorded wpm is a finite number, and a session that
\* completes with elapsed == 0 records no rate.
C8_NoDivisionByZero ==
    /\ \A i \in 1..Len(leaderboard) : leaderboard[i].wpm.k = "fin"
    /\ (Completed /\ Final.elapsed = Dbl(0)) => recorded = 0

AccuracyPenalty(m) ==
    /\ FGe(m.accuracy, Dbl(50)) => FEq(m.wpm, m.raw_wpm)
    /\ FLt(m.accuracy, Dbl(50)) => FEq(m.wpm, FDiv(FMul(m.raw_wpm, m.accuracy), Dbl(50)))

\* C9: in every metric computation, live and final, accuracy >= 50 implies
\* wpm == raw_wpm and accuracy < 50 implies wpm == raw_wpm * accuracy / 50.
C9_AccuracyPenalty ==
    /\ (pc = "typing" /\ Live.shown) => AccuracyPenalty(Live)
    /\ Completed => AccuracyPenalty(Final)

\* C10: for all positions i < j of the leaderboard, wpm_i > wpm_j, or
\* wpm_i == wpm_j and accuracy_i >= accuracy_j.
C10_Ordered ==
    \A i, j \in 1..Len(leaderboard) :
        i < j => \/ FGt(leaderboard[i].wpm, leaderboard[j].wpm)
                 \/ /\ FEq(leaderboard[i].wpm, leaderboard[j].wpm)
                    /\ FGe(leaderboard[i].accuracy, leaderboard[j].accuracy)

\* C11: in every state of the program the in-memory leaderboard holds at most
\* 10 records.
C11_Capacity == Len(leaderboard) <= MaxLeaderboard

\* lb is in leaderboard order: wpm descending, then accuracy descending
Ordered(lb) ==
    \A i, j \in 1..Len(lb) :
        i < j => \/ FGt(lb[i].wpm, lb[j].wpm)
                 \/ /\ FEq(lb[i].wpm, lb[j].wpm)
                    /\ FGe(lb[i].accuracy, lb[j].accuracy)

SameRecord(a, b) ==
    /\ a.name = b.name /\ a.date = b.date /\ a.wordCount = b.wordCount
    /\ a.hasPunctuation = b.hasPunctuation /\ a.hasNumbers = b.hasNumbers

\* C13: when the program is started again on the file it saved from the
\* leaderboard it holds, the load ends normally and returns as many records,
\* in the same order, each with the same name, date, word_count,
\* has_punctuation and has_numbers.
C13_RoundTrip ==
    [][ (/\ pc = "menu" /\ file' = file
         /\ file = saveLeaderboard(leaderboard)) =>
            /\ pc' = "menu"
            /\ Len(leaderboard') = Len(leaderboard)
            /\ \A i \in 1..Len(leaderboard) : SameRecord(leaderboard'[i], leaderboard[i]) ]_vars

\* the fields of a line, cut at every '|'
RECURSIVE SplitFrom(_, _, _)
SplitFrom(line, i, cur) ==
    IF i > Len(line) THEN << cur >>
    ELSE IF line[i] = "|" THEN << cur >> \o SplitFrom(line, i + 1, << >>)
    ELSE SplitFrom(line, i + 1, Append(cur, line[i]))

Fields(line) == SplitFrom(line, 1, << >>)

\* number of '|' in a line
Seps(line) == Len(Fields(line)) - 1

\* s is the text of a natural number
IsNumberText(s) == s # << >> /\ \A i \in 1..Len(s) : IsDigit(s[i])

\* s is the text of a number as leaderboard.txt holds them: digits with an
\* optional fraction
IsDecimalText(s) ==
    \E k \in 1..Len(s) :
        /\ IsNumberText(SubSeq(s, 1, k))
        /\ k = Len(s) \/ (s[k + 1] = "." /\ IsNumberText(SubSeq(s, k + 2, Len(s))))

\* a line that yields a record (three separators at least) and whose WPM,
\* ACCURACY and TIME fields are numbers
NumbersOk(line) ==
    Seps(line) >= 3 => \A n \in 2..4 : IsDecimalText(Fields(line)[n])

\* the position in the loaded leaderboard of the record of line i, when every
\* line with three separators or more yields a record
RecIndex(lines, i) == Cardinality({ k \in 1..i : Seps(lines[k]) >= 3 })

\* a step in which main loads a file that exists and the load returns
LoadReturns == pc = "start" /\ file.exists /\ pc' \in { "menu", "exited" }

\* C14: a loaded line with exactly 4 separators yields a record with
\* word_count 15, both flags false, and the line's DATE field as date
\* ("Unknown" when that field is empty).
C14_Legacy5 ==
    [][ LoadReturns =>
          \A i \in 1..Len(file.lines) :
             Seps(file.lines[i]) = 4 =>
                LET r == leaderboard'[RecIndex(file.lines, i)]
                    d == Fields(file.lines[i])[5]
                IN  /\ r.wordCount = 15 /\ ~r.hasPunctuation /\ ~r.hasNumbers
                    /\ r.date = IF d = << >> THEN Unknown ELSE d ]_vars

\* C15: a loaded line with exactly 5 separators whose WORD_COUNT is a valid
\* integer yields a record with the line's date, the line's word count and
\* both flags false.
C15_Legacy6 ==
    [][ LoadReturns =>
          \A i \in 1..Len(file.lines) :
             (Seps(file.lines[i]) = 5 /\ IsNumberText(Fields(file.lines[i])[6])) =>
                LET r == leaderboard'[RecIndex(file.lines, i)]
                    f == Fields(file.lines[i])
                IN  /\ r.date = f[5]
                    /\ r.wordCount = DigitsVal(f[6], 1, Len(f[6]))
                    /\ ~r.hasPunctuation /\ ~r.hasNumbers ]_vars

\* C16: a loaded line with exactly 3 separators yields a record with date
\* "Unknown", word_count 15 and both flags false, and the loader goes on:
\* every line with three separators or more has its record, and the load
\* stops early only on a line whose WPM, ACCURACY or TIME is not a number.
C16_Legacy3 ==
    [][ (pc = "start" /\ file.exists) =>
          /\ pc' = "aborted" => \E k \in 1..Len(file.lines) : ~NumbersOk(file.lines[k])
          /\ pc' \in { "menu", "exited" } =>
                /\ Len(leaderboard') = RecIndex(file.lines, Len(file.lines))
                /\ \A i \in 1..Len(file.lines) :
                      Seps(file.lines[i]) = 3 =>
                         LET r == leaderboard'[RecIndex(file.lines, i)]
                         IN  /\ r.date = Unknown /\ r.wordCount = 15
                             /\ ~r.hasPunctuation /\ ~r.hasNumbers
                             /\ r.name = toUpperCase(Fields(file.lines[i])[1]) ]_vars

\* a 3-field line and the newest-shape line after it are both loaded
C16_Witness ==
    /\ pc = "menu" /\ inserts = 0
    /\ file.exists /\ file.lines = << Line3, Line8 >>
    /\ Len(leaderboard) = 2
    /\ leaderboard[1].date = Unknown /\ leaderboard[1].wordCount = 15
    /\ leaderboard[2].wordCount = 25

\* C17: the load of a file that exists always returns, and every line with
\* three separators or more whose WPM, ACCURACY and TIME are numbers has its
\* record in the loaded leaderboard.
C17_LoaderNeverAborts ==
    [][ (pc = "start" /\ file.exists) =>
          /\ pc' # "aborted"
          /\ Len(leaderboard') >=
                Cardinality({ k \in 1..Len(file.lines) :
                                Seps(file.lines[k]) >= 3 /\ NumbersOk(file.lines[k]) }) ]_vars

\* C18: a loaded line with exactly 7 separators keeps its name, wpm,
\* accuracy, time and date whatever its last three fields hold, and takes the
\* default (15, false) only for those of the three that are no number.
C18_PerFieldDefault ==
    [][ LoadReturns =>
          \A i \in 1..Len(file.lines) :
             Seps(file.lines[i]) = 7 =>
                LET r == leaderboard'[RecIndex(file.lines, i)]
                    f == Fields(file.lines[i])
                IN  /\ r.name = toUpperCase(f[1])
                    /\ r.wpm = StoD(f[2]) /\ r.accuracy = StoD(f[3]) /\ r.time = StoD(f[4])
                    /\ r.date = f[5]
                    /\ r.wordCount = IF IsNumberText(f[6]) THEN DigitsVal(f[6], 1, Len(f[6]))
                                     ELSE 15
                    /\ r.hasPunctuation = (IsNumberText(f[7]) /\ DigitsVal(f[7], 1, Len(f[7])) = 1)
                    /\ r.hasNumbers = (IsNumberText(f[8]) /\ DigitsVal(f[8], 1, Len(f[8])) = 1) ]_vars

C20_WriterShape ==
    [][ file' # file =>
          \A i \in 1..Len(file'.lines) :
             /\ Seps(file'.lines[i]) = 7
             /\ Fields(file'.lines[i])[7] \in { <<"0">>, <<"1">> }
             /\ Fields(file'.lines[i])[8] \in { <<"0">>, <<"1">> } ]_vars

\* C21: a completed session changes the leaderboard in the step that reaches
\* the completion prompt and a confirmed clear in the step that leaves the
\* leaderboard screen, each saved in that same step, before the next key is
\* read: at the completion prompt and in the leaderboard screen
\* leaderboard.txt is the saved form of the leaderboard in memory, the file
\* then changes only together with the leaderboard, and Q at the completion
\* prompt ends the program with the file holding the record just inserted.
C21_SavedAfterMutation ==
    /\ [](Completed => inserts > 0 /\ file = saveLeaderboard(leaderboard))
    /\ [][ /\ (pc = "typing" /\ leaderboard' # leaderboard) => Completed'
           /\ (pc = "board" /\ leaderboard' # leaderboard) =>
                leaderboard' = << >> /\ file' = saveLeaderboard(<< >>)
           /\ (pc # "start" /\ leaderboard' = leaderboard) => file' = file
           /\ (pc = "prompt" /\ pc' = "exited") =>
                /\ file' = file /\ leaderboard' = leaderboard
                /\ file'.exists /\ Len(file'.lines) = Len(leaderboard)
                /\ Len(leaderboard) > 0 ]_vars

\* Q pressed at the completion prompt of the session just recorded
C21_Witness ==
    /\ pc = "exited" /\ inserts = 1
    /\ Len(leaderboard) = 1 /\ file = saveLeaderboard(leaderboard)

\* C22: a confirmed clear leaves the leaderboard empty and leaderboard.txt
\* saved from the empty leaderboard in the same step; the file then changes
\* only when a session completes, and a load of the file a clear wrote
\* returns an empty leaderboard.
C22_ClearPersists ==
    [][ /\ (pc = "board" /\ (leaderboard' # leaderboard \/ file' # file)) =>
              /\ leaderboard' = << >>
              /\ file' = saveLeaderboard(<< >>)
              /\ file'.exists /\ file'.lines = << >>
              /\ loadLeaderboard(file') = [ ok |-> TRUE, lb |-> << >> ]
        /\ file' # file => pc \in { "typing", "board" }
        /\ (pc = "start" /\ file = saveLeaderboard(<< >>)) =>
              pc' # "aborted" /\ leaderboard' = << >> /\ file' = file ]_vars

\* the program was started again after a clear and left at the name screen
C22_Witness ==
    /\ pc = "exited" /\ playerName = << >> /\ inserts > 0
    /\ file.exists /\ file.lines = << >> /\ leaderboard = << >>

\* C23: when the next untyped target character is a space, the space key is
\* never a word jump: it appends exactly one space to typed and leaves no
\* jump active, and a backspace pressed right after it removes only that
\* space.
C23_BoundarySpace ==
    [][ pc = "typing" =>
          /\ (Len(typed) < Len(target) /\ At(target, Len(typed)) = " ") =>
                lastEvent' # "skip"
          /\ (lastEvent' = "space" /\ typed' # typed) =>
                /\ At(target, Len(typed)) = " "
                /\ typed' = Append(typed, " ") /\ target' = target
                /\ ~has_jumped' /\ jumped_from_pos' = NPOS
          /\ (lastEvent = "space" /\ lastEvent' \in { "undo", "backspace" }) =>
                /\ lastEvent' = "backspace"
                /\ Append(typed', " ") = typed
                /\ ~has_jumped' /\ jumped_from_pos' = NPOS ]_vars

\* the first word was typed in full and the space after it was pressed
C23_Witness ==
    /\ pc = "typing" /\ lastEvent = "space" /\ ~has_jumped
    /\ Len(typed) >= 2 /\ typed = Substr0(target, Len(typed))
    /\ At(typed, Len(typed) - 1) = " "

\* C24: a printable key pressed while len(typed) < len(target) appends its
\* character to typed, matching the target or not, and leaves no jump active;
\* a backspace pressed right after it removes only that character, so the
\* filler of an earlier word jump stays in typed.
C24_PrintableAppends ==
    [][ pc = "typing" =>
          /\ (lastEvent' = "char" /\ typed' # typed) =>
                /\ Len(typed) < Len(target)
                /\ Len(typed') = Len(typed) + 1
                /\ Substr0(typed', Len(typed)) = typed
                /\ At(typed', Len(typed)) \in PrintableKeys
                /\ target' = target
                /\ ~has_jumped' /\ jumped_from_pos' = NPOS
          /\ (lastEvent = "char" /\ lastEvent' \in { "undo", "backspace" }) =>
                /\ lastEvent' = "backspace"
                /\ typed' = Substr0(typed, Len(typed) - 1)
                /\ ~has_jumped' /\ jumped_from_pos' = NPOS ]_vars

\* a word jump, one wrong character, then a backspace: the filler is kept
C24_Witness ==
    /\ pc = "typing" /\ lastEvent = "backspace" /\ ~has_jumped
    /\ \E i \in 1..Len(typed) : typed[i] = "_"

\* C25: a backspace pressed with no jump active removes exactly the last
\* character of a non-empty typed and leaves no jump active; pressed on an
\* empty typed it changes nothing; no backspace changes target, started or
\* start_time.
C25_OrdinaryBackspace ==
    [][ (pc = "typing" /\ now' = now /\ lastEvent' \in { "undo", "backspace" }) =>
          /\ target' = target /\ started' = started /\ start_time' = start_time
          /\ pc' = "typing" /\ leaderboard' = leaderboard /\ file' = file
          /\ (~has_jumped /\ typed # << >>) =>
                /\ lastEvent' = "backspace"
                /\ typed' = Substr0(typed, Len(typed) - 1)
                /\ ~has_jumped' /\ jumped_from_pos' = NPOS
          /\ typed = << >> =>
                /\ typed' = << >>
                /\ has_jumped' = has_jumped /\ jumped_from_pos' = jumped_from_pos ]_vars

\* the only character typed was removed again: the timer keeps running
C25_Witness ==
    /\ pc = "typing" /\ lastEvent = "backspace"
    /\ typed = << >> /\ started /\ ~has_jumped

\* C26: Enter in an unfinished session empties typed, sets started to false,
\* clears the jump state and replaces target by a text generated with the
\* session's word count and punctuation/numbers flags, which it keeps; the
\* timer then stays stopped until the next printable or space key, which
\* starts it at the time of that key.
C26_Restart ==
    /\ [](lastEvent = "enter" => pc = "typing" /\ typed = << >> /\ ~started /\ ~has_jumped)
    /\ [][ /\ (pc = "typing" /\ now' = now /\ lastEvent' = "enter") =>
                /\ typed' = << >> /\ ~started'
                /\ ~has_jumped' /\ jumped_from_pos' = NPOS
                /\ target' \in Targets(includePunctuation, includeNumbers, wordCount)
                /\ options' = options
                /\ pc' = "typing" /\ leaderboard' = leaderboard /\ file' = file
           /\ (lastEvent = "enter" /\ started') =>
                /\ lastEvent' \in { "char", "space", "skip" }
                /\ start_time' = now /\ typed' # << >> ]_vars

\* Enter pressed in a session whose timer had been started after one second
C26_Witness ==
    /\ pc = "typing" /\ lastEvent = "enter"
    /\ typed = << >> /\ ~started /\ start_time > 0

\* C27 as claimed: every key that is neither printable, space, backspace nor
\* Enter (ESC included) leaves target, typed, started, start_time and the jump
\* state unchanged.
C27_Original ==
    [][ (pc = "typing" /\ now' = now /\ lastEvent' \in { "other", "esc" }) =>
           session' = session ]_vars

\* C27 as amended: every key that is neither printable, space, backspace,
\* Enter nor ESC leaves the session, the leaderboard and the file unchanged,
\* and a backspace pressed after such a key that followed a word jump still
\* undoes the whole jump; ESC ends the session without a record.
C27_OtherIgnored ==
    [][ pc = "typing" =>
          /\ (now' = now /\ lastEvent' = "other") =>
                /\ session' = session
                /\ pc' = "typing" /\ leaderboard' = leaderboard /\ file' = file
          /\ (lastEvent = "other" /\ has_jumped /\ lastEvent' \in { "undo", "backspace" }) =>
                /\ lastEvent' = "undo"
                /\ typed' = beforeSkip /\ Len(typed') = jumped_from_pos
                /\ ~has_jumped' /\ jumped_from_pos' = NPOS
          /\ lastEvent' = "esc" =>
                pc' = "menu" /\ leaderboard' = leaderboard /\ file' = file ]_vars

\* a key without a handler was pressed right after a word jump
C27_Witness ==
    /\ pc = "typing" /\ lastEvent = "other"
    /\ has_jumped /\ Len(typed) > jumped_from_pos /\ started

\* C28: a redraw computes live statistics exactly when started is true,
\* len(typed) > 0 and elapsed > 0; then raw wpm, accuracy and wpm are finite
\* numbers (no division by zero took place), and otherwise nothing is
\* computed.
C28_LiveGuards ==
    pc \in { "typing", "prompt" } =>
        LET live == Live
        IN  /\ live.shown <=> (started /\ Len(typed) > 0 /\ now - start_time > 0)
            /\ live.shown =>
                  /\ live.raw_wpm.k = "fin" /\ live.accuracy.k = "fin" /\ live.wpm.k = "fin"
                  /\ live.elapsed = Dbl(now - start_time)
            /\ ~live.shown => live = NoStats

\* typed was emptied by backspace more than a second after the timer started
C28_Witness ==
    /\ pc = "typing" /\ lastEvent = "backspace"
    /\ started /\ typed = << >> /\ now > start_time /\ ~Live.shown

\* the indexes of ty at which ty and tgt hold the same character
Matches(ty, tgt) == { i \in 0..(Len(ty) - 1) : i < Len(tgt) /\ At(ty, i) = At(tgt, i) }

\* the bounds on correct and accuracy in the metrics m computed from typed
CorrectAndAccuracy(m) ==
    /\ m.correct = Cardinality(Matches(typed, target))
    /\ 0 <= m.correct /\ m.correct <= Len(typed) /\ Len(typed) <= Len(target)
    /\ Len(typed) > 0
    /\ m.accuracy = Fin(m.correct * 100, Len(typed))
    /\ FGe(m.accuracy, Dbl(0)) /\ FGe(Dbl(100), m.accuracy)

\* C29: in every metric computation, live and final, correct is the number of
\* indexes i < len(typed) with typed[i] == target[i] (an upper-case letter
\* does not match its lower-case form), 0 <= correct <= len(typed) <=
\* len(target), and accuracy == correct * 100 / len(typed) lies in [0, 100].
C29_CorrectBounds ==
    /\ CountCorrect(<<"F", "o">>, <<"f", "o", "x">>) = 1
    /\ (pc = "typing" /\ Live.shown) => CorrectAndAccuracy(Live)
    /\ Completed => CorrectAndAccuracy(Final)

\* live statistics of a typed text with right and wrong characters
C29_Witness ==
    /\ pc = "typing" /\ Live.shown
    /\ 0 < Live.correct /\ Live.correct < Len(typed)

\* no character of name is a lower-case letter
NoLowerCase(name) ==
    \A i \in 1..Len(name) : \A j \in 1..26 : name[i] # LowerCase[j]

\* C30: in every reachable state the name of every record of the leaderboard,
\* and the player name the next record will carry, hold no lower-case letter
\* and so equal their own upper-case form.
C30_NamesUpperCase ==
    /\ NoLowerCase(playerName)
    /\ \A i \in 1..Len(leaderboard) :
          /\ NoLowerCase(leaderboard[i].name)
          /\ leaderboard[i].name = toUpperCase(leaderboard[i].name)

\* the record loaded from a line with a lower-case name, and the player name
\* typed in lower case in the name-entry screen
C30_Witness ==
    /\ pc = "menu" /\ inserts = 0
    /\ file.lines = << Line8Lower >>
    /\ Len(leaderboard) = 1 /\ leaderboard[1].name = <<"A","L">>
    /\ playerName = <<"A","L">>

\* position of the first record of lb that carries name n
FirstSeen(lb, n) ==
    CHOOSE i \in 1..Len(lb) : lb[i].name = n /\ \A k \in 1..(i - 1) : lb[k].name # n

\* C31: the unique names of the leaderboard hold every name of a record
\* exactly once, in the order of the names' first records, and are the empty
\* list for the empty leaderboard.
C31_UniqueNames ==
    LET u == getUniquePlayerNames(leaderboard)
    IN  /\ Range(u) = { leaderboard[i].name : i \in 1..Len(leaderboard) }
        /\ \A i, j \in 1..Len(u) : i # j => u[i] # u[j]
        /\ \A i, j \in 1..Len(u) :
              i < j => FirstSeen(leaderboard, u[i]) < FirstSeen(leaderboard, u[j])
        /\ leaderboard = << >> => u = << >>

\* three records under two names
C31_Witness ==
    /\ pc = "menu" /\ Len(leaderboard) = 3
    /\ Len(getUniquePlayerNames(leaderboard)) = 2

\* the tokens of a text, cut at every space
RECURSIVE TokensFrom(_, _, _)
TokensFrom(text, i, cur) ==
    IF i > Len(text) THEN << cur >>
    ELSE IF text[i] = " " THEN << cur >> \o TokensFrom(text, i + 1, << >>)
    ELSE TokensFrom(text, i + 1, Append(cur, text[i]))

\* every token of every pool is non-empty and holds no space
PoolTokensOk ==
    \A p \in 1..Len(AllPools) : \A w \in 1..Len(AllPools[p]) :
        /\ AllPools[p][w] # << >>
        /\ \A c \in 1..Len(AllPools[p][w]) : AllPools[p][w][c] # " "

\* C32: the target of a session, as generated at its start and at every
\* restart, is made of exactly wordCount non-empty tokens with one space
\* between neighbours and none before the first or after the last; no pool
\* holds an empty token or a token with a space.
C32_TokenCount ==
    /\ PoolTokensOk
    /\ pc \in { "typing", "prompt", "board" } =>
          LET t == TokensFrom(target, 1, << >>)
          IN  /\ wordCount >= 1 /\ Len(t) = wordCount
              /\ \A i \in 1..Len(t) : t[i] # << >>
              /\ target[1] # " " /\ target[Len(target)] # " "
              /\ Len(target) = (LET n[i \in 0..Len(t)] ==
                                        IF i = 0 THEN 0 ELSE n[i - 1] + Len(t[i])
                                IN  n[Len(t)]) + (wordCount - 1)

\* a target of two tokens generated by a restart
C32_Witness ==
    /\ pc = "typing" /\ lastEvent = "enter"
    /\ wordCount = 2 /\ Len(target) >= 3

\* every token of the pure-numeric pool is made of digits
PureNumbersAreDigits ==
    \A w \in 1..Len(pureNumbers) : \A c \in 1..Len(pureNumbers[w]) : IsDigit(pureNumbers[w][c])

\* the tokens of the four pools as sets
PureNumberTokens == Range(pureNumbers)
BaseTokens == Range(words)
PunctuationTokens == Range(punctuationWords)
NumberTokens == Range(numberWords)

\* C33: with numbers set and punctuation not set every token of the target
\* is a token of the pure-numeric pool, so every character of the target is a
\* digit or a space; with any other flags every token is one of the base word
\* list, or of the punctuation-word list if punctuation is set, or of the
\* number-word list if numbers is set.
C33_PoolSelection ==
    /\ PureNumbersAreDigits
    /\ pc \in { "typing", "prompt", "board" } =>
          LET t == TokensFrom(target, 1, << >>)
          IN  IF includeNumbers /\ ~includePunctuation
              THEN /\ \A i \in 1..Len(t) : t[i] \in PureNumberTokens
                   /\ \A c \in 1..Len(target) : target[c] = " " \/ IsDigit(target[c])
              ELSE \A i \in 1..Len(t) :
                      \/ t[i] \in BaseTokens
                      \/ includePunctuation /\ t[i] \in PunctuationTokens
                      \/ includeNumbers /\ t[i] \in NumberTokens

\* a numbers-only target of two tokens
C33_Witness ==
    /\ pc = "typing" /\ includeNumbers /\ ~includePunctuation
    /\ wordCount = 2 /\ Len(target) >= 3

\* C34: in the typing loop the keys 'L' and 'W' add no character to typed.
C34_MenuKeysNotTyped ==
    [][ pc = "typing" =>
          ~(/\ Len(typed') = Len(typed) + 1
            /\ At(typed', Len(typed)) \in { "L", "W" }) ]_vars

\* C35: has_jumped is true exactly when jumped_from_pos is not npos; while a
\* jump is active jumped_from_pos < len(typed) <= len(target), every
\* character of typed from index jumped_from_pos on is '_' or ' ', and
\* len(typed) is len(target) or the index of the first character of a word.
C35_JumpState ==
    /\ has_jumped <=> jumped_from_pos # NPOS
    /\ has_jumped =>
          /\ jumped_from_pos < Len(typed) /\ Len(typed) <= Len(target)
          /\ \A i \in jumped_from_pos..(Len(typed) - 1) : At(typed, i) \in { "_", " " }
          /\ \/ Len(typed) = Len(target)
             \/ At(target, Len(typed)) # " " /\ At(target, Len(typed) - 1) = " "

\* the first word was skipped from its first character
C35_Witness ==
    /\ pc = "typing" /\ has_jumped /\ jumped_from_pos = 0
    /\ Len(typed) >= 2 /\ Len(typed) < Len(target)

\* C36: a space pressed inside the last word of the target fills typed up to
\* len(target) and the same event completes the session and inserts its
\* record, so no backspace is handled after it; pressed as the first key of
\* a session it also starts the timer in that event.
C36_SkipLastWord ==
    [][ /\ (/\ pc = "typing" /\ now' = now /\ lastEvent' = "skip"
            /\ Find(target, " ", Len(typed)) = NPOS) =>
              /\ Len(typed') = Len(target) /\ target' = target
              /\ Substr0(typed', Len(typed)) = typed
              /\ pc' = "prompt" /\ recorded' = 1 /\ inserts' = inserts + 1
              /\ Len(leaderboard') = Len(leaderboard) + 1
              /\ started' /\ (~started => start_time' = now)
        /\ (pc \in { "prompt", "board" } /\ has_jumped) =>
              (pc' # "typing" /\ (typed' = typed \/ pc' \in { "menu", "exited" })) ]_vars

\* a space was the first key of a session on a target of one word
C36_Witness ==
    /\ pc = "prompt" /\ wordCount = 1 /\ recorded = 1
    /\ has_jumped /\ jumped_from_pos = 0 /\ lastEvent = "skip"
    /\ \A i \in 1..Len(typed) : typed[i] = "_"

\* C37: once started is true, every step of the typing loop other than Enter
\* and the end of the session keeps started true and start_time unchanged,
\* also when backspace empties typed; the record of a completed session
\* carries the time elapsed since the first accepted key after the last
\* restart.
C37_TimerKept ==
    /\ [](started => start_time <= now)
    /\ [][ pc = "typing" =>
            /\ (started /\ pc' \in { "typing", "prompt" } /\ (lastEvent' # "enter" \/ now' # now)) =>
                  started' /\ start_time' = start_time
            /\ (started /\ typed' = << >> /\ lastEvent' \in { "undo", "backspace" }) =>
                  started' /\ start_time' = start_time
            /\ pc' = "prompt" =>
                  /\ start_time' = IF started THEN start_time ELSE now
                  /\ \E i \in 1..Len(leaderboard') :
                        leaderboard'[i].time = Dbl(now - start_time') ]_vars

\* a session completed one second after its first accepted key
C37_Witness ==
    /\ pc = "prompt" /\ recorded = 1 /\ now > start_time
    /\ \E i \in 1..Len(leaderboard) : leaderboard[i].time = Dbl(now - start_time)

\* C38: when SIGINT or SIGTERM ends the process, saveLeaderboard running or
\* not, leaderboard.txt holds the complete list saved before or the complete
\* new list, never an empty or partly written one
C38_SignalKeepsFile ==
    [][ pc' = "killed" => file' = file \/ file' = saveLeaderboard(leaderboard') ]_vars

\* C39: every non-empty name confirmed in the name-entry screen becomes the
\* player name in upper case, "cancel" and "worm_closet" included: the
\* program neither ends nor opens the worm closet, and the next record
\* inserted carries the player name
C39_TypedNameTaken ==
    [][ /\ ( /\ pc \in { "start", "closet" } \/ (pc = "menu" /\ inserts' = inserts)
             /\ pc' # "aborted" ) =>
               /\ pc' = "menu"
               /\ \E n \in TypedNames : playerName' = toUpperCase(n)
        /\ inserts' = inserts + 1 =>
               \E i \in 1..Len(leaderboard') : leaderboard'[i].name = playerName ]_vars

TypeOK ==
    /\ pc \in { "start", "menu", "typing", "prompt", "board", "exited", "aborted", "killed", "closet" }
    /\ now \in 0..MaxTime
====
